---- MODULE Spec2Model ----
(***************************************************************************)
(* BNPL debt and refund service (bnpl_service): the relational store, the  *)
(* request handlers of views.py, the scheduled tasks of tasks.py and the   *)
(* idempotency cache of utils.py, as a state machine.                      *)
(*                                                                         *)
(* Time is counted in hours; a calendar date is the day number now \div 24.*)
(* Money is counted in cents (DecimalField with decimal_places=2).         *)
(* Rows are records; a table is a sequence and a row's primary key is its  *)
(* index (a UUID in the code: opaque, unique, never reused).               *)
(***************************************************************************)
EXTENDS Integers, Sequences, FiniteSets, TLC

VARIABLES
    now,            \* timezone.now(), in hours
    users,          \* table users: user_id -> status
    plans,          \* table bnpl_plans
    installments,   \* table installments
    refunds,        \* table refunds
    idem,           \* table idempotency_keys, a set of rows with unique key
    last,           \* the last operation run and what it answered
    txn             \* the open transactions of the interleaved runs

vars == <<now, users, plans, installments, refunds, idem, last, txn>>

----------------------------------------------------------------------------
\* Bounds of the model

\* plans that may be created
MaxPlans == 2

\* the largest total_amount, in cents, of the plans whose amounts are examined
MaxTotal == 30

----------------------------------------------------------------------------
\* Values

NORMAL == "NORMAL"
DEBT_USER == "DEBT_USER"
UPCOMING == "UPCOMING"
OVERDUE == "OVERDUE"
PAID == "PAID"
ACTIVE == "ACTIVE"
COMPLETED == "COMPLETED"
PENDING == "PENDING"
APPROVED == "APPROVED"
REJECTED == "REJECTED"

\* a null column, and a non-null one holding v
Null == <<>>
Some(v) == <<v>>

\* the users of the store, and the user ids a request may carry
Users == {"u1", "u2"}
UserIds == Users \cup {"ux"}

\* the X-Idempotency-Key header: absent, or one of the keys
NoKey == "none"
Keys == {"k1"}

\* installment_count is validated to 1..12
MinInstallmentCount == 1
MaxInstallmentCount == 12
\* days between two installments of a plan
InstallmentIntervalDays == 30
\* expiry_hours of an idempotency entry
ExpiryHours == 24

\* timezone.now().date(): the day number of a timestamp in hours
DateOf(t) == t \div 24
Today == DateOf(now)

\* the days the model's clock visits: the first day, the day after the first
\* installment of a plan of the first day is due, and the day after its second is due
\* (the day the first installment of a plan of the second day is due)
ClockDays == {0, InstallmentIntervalDays + 1, 2 * InstallmentIntervalDays + 1}
ClockTimes == {24 * d : d \in ClockDays}

----------------------------------------------------------------------------
\* Queries

RECURSIVE SeqToSet(_)
SeqToSet(s) == IF s = <<>> THEN {} ELSE {Head(s)} \cup SeqToSet(Tail(s))

InstallmentIds == 1..Len(installments)

\* plan__user: the owner of an installment
OwnerOf(insts, i) == plans[insts[i].plan].user

\* Installment.objects.filter(plan__user=user, status=OVERDUE)
OverdueOf(insts, u) == {i \in 1..Len(insts) : OwnerOf(insts, i) = u /\ insts[i].status = OVERDUE}

\* the filter without its status condition
IsPastDueAnyStatus(inst, today) == inst.due_date < today

\* the filter with due_date__lte in place of due_date__lt
IsPastDueOrToday(inst, today) == inst.status = UPCOMING /\ inst.due_date <= today

\* Installment.objects.filter(status=UPCOMING, due_date__lt=today)
IsPastDue(inst, today) == inst.status = UPCOMING /\ inst.due_date < today

PastDue(insts, today) == {i \in 1..Len(insts) : IsPastDue(insts[i], today)}

RECURSIVE SumAmounts(_, _)
\* sum(installment.amount_due) over the rows of the set
SumAmounts(insts, rows) ==
    IF rows = {} THEN 0
    ELSE LET i == CHOOSE j \in rows : TRUE
         IN  insts[i].amount_due + SumAmounts(insts, rows \ {i})

----------------------------------------------------------------------------
\* Idempotency cache (utils.py)

Entry(k) == CHOOSE e \in idem : e.key = k

HasEntry(k) == \E e \in idem : e.key = k

\* the entry of key k has expired
IsExpired(e, t) == e.expires_at < t

\* a response body that carries nothing
NoBody == [none |-> TRUE]

\* a lookup that never finds the entry
CheckIdempotencyMiss(k) == [hit |-> FALSE, data |-> NoBody, table |-> idem]

\* check_idempotency: whether a valid entry is found, its response_data, and the
\* table afterwards (an expired entry is deleted)
CheckIdempotency(k) ==
    IF ~HasEntry(k) THEN [hit |-> FALSE, data |-> NoBody, table |-> idem]
    ELSE IF IsExpired(Entry(k), now) THEN [hit |-> FALSE, data |-> NoBody, table |-> idem \ {Entry(k)}]
    ELSE [hit |-> TRUE, data |-> Entry(k).response_data, table |-> idem]

\* the handlers' "if idempotency_key: cached_response = check_idempotency(key)"
Lookup(k) ==
    IF k = NoKey THEN [hit |-> FALSE, data |-> NoBody, table |-> idem] ELSE CheckIdempotency(k)

\* save_idempotency_response: a create, refused by the primary key when the key is there
SaveIdempotencyResponse(table, k, data) ==
    IF \E e \in table : e.key = k THEN table
    ELSE table \cup {[key |-> k, response_data |-> data, expires_at |-> now + ExpiryHours]}

\* the handlers' "if idempotency_key: save_idempotency_response(key, response_data)"
Store(table, k, data) ==
    IF k = NoKey THEN table ELSE SaveIdempotencyResponse(table, k, data)

----------------------------------------------------------------------------
\* Initial state: the users exist, nothing else does

\* the runs that may interleave: two repay requests, two create_plan requests, two
\* create_refund requests, a webhook and the scheduled sweep
RepaySessions == {"r1", "r2"}
CreateSessions == {"c1", "c2"}
RefundSessions == {"f1", "f2"}
Sessions == RepaySessions \cup CreateSessions \cup RefundSessions \cup {"wh", "sw"}

\* a run that has not started: what it was sent (user, ids, key, count, total, txid,
\* amount, st, ref), what it read (ustat, rows, today), what it has written and not
\* yet committed (installments wi, users wu, plans wp, keys inserted wk and deleted
\* dk, refunds wr), whether a statement of it has failed inside the atomic block
\* (broken), and what it answered (code, body); early is no part of the run: it
\* records that the other request of its kind had not yet written when this one
\* made its checks
Idle ==
    [pc |-> "idle", user |-> "", ids |-> <<>>, key |-> NoKey, count |-> 0, txid |-> "",
     st |-> "", ref |-> "", total |-> 0, amount |-> 0, today |-> 0, ustat |-> {}, rows |-> {},
     wi |-> {}, wu |-> {}, wp |-> {}, wk |-> {}, dk |-> {}, wr |-> {},
     broken |-> FALSE, early |-> FALSE, code |-> 0, body |-> NoBody]

NoTxn == [s \in Sessions |-> Idle]

Init ==
    /\ now = 0
    /\ users = [u \in Users |-> NORMAL]
    /\ plans = <<>>
    /\ installments = <<>>
    /\ refunds = <<>>
    /\ idem = {}
    /\ last = [op |-> "init", code |-> 0, body |-> NoBody]
    /\ txn = NoTxn

----------------------------------------------------------------------------
\* The clock

AdvanceClock ==
    /\ \E t \in ClockTimes : t > now /\ now' = t
    /\ last' = [op |-> "advance_clock", code |-> 0, body |-> NoBody]
    /\ UNCHANGED <<users, plans, installments, refunds, idem, txn>>

----------------------------------------------------------------------------
\* create_plan (BNPLPlanViewSet.create)

\* Decimal division stored in a column of two decimal places: the quotient in cents,
\* rounded half to even
InstallmentAmount(total, n) ==
    LET q == total \div n
        r == total % n
    IN  IF 2 * r < n THEN q
        ELSE IF 2 * r > n THEN q + 1
        ELSE IF q % 2 = 0 THEN q ELSE q + 1

\* the due dates counted from the creation date itself
DueDateFromToday(today, i) == today + InstallmentIntervalDays * i

\* the due date of installment i (0-based) of a plan created today
DueDate(today, i) == today + InstallmentIntervalDays * (i + 1)

\* the rows create_plan inserts for plan pid
NewInstallments(pid, total, n, today) ==
    [i \in 1..n |->
        [plan |-> pid, amount_due |-> InstallmentAmount(total, n),
         due_date |-> DueDate(today, i - 1), status |-> UPCOMING, paid_at |-> Null]]

\* InstallmentSerializer(...).data of row i
InstallmentData(insts, i) ==
    [id |-> i, plan_id |-> insts[i].plan, amount_due |-> insts[i].amount_due,
     due_date |-> insts[i].due_date, status |-> insts[i].status, paid_at |-> insts[i].paid_at]

RECURSIVE PlanInstallments(_, _, _)
\* plan.installments.all(): the installments of plan pid, from row i on
PlanInstallments(insts, pid, i) ==
    IF i > Len(insts) THEN <<>>
    ELSE IF insts[i].plan = pid THEN <<InstallmentData(insts, i)>> \o PlanInstallments(insts, pid, i + 1)
    ELSE PlanInstallments(insts, pid, i + 1)

\* BNPLPlanSerializer(plan).data
PlanData(us, ps, insts, pid) ==
    [id |-> pid, user_id |-> ps[pid].user, user_status |-> us[ps[pid].user],
     total_amount |-> ps[pid].total_amount, status |-> ps[pid].status,
     installments |-> PlanInstallments(insts, pid, 1)]

\* CreateBNPLPlanSerializer.is_valid
CreatePlanValid(u, total, n) ==
    /\ total >= 1
    /\ n >= MinInstallmentCount /\ n <= MaxInstallmentCount
    /\ u \in Users
    /\ users[u] # DEBT_USER

\* the checks without the one of the user's status
CreatePlanCodeAnyStatus(u, total, n) ==
    IF total < 1 \/ n < MinInstallmentCount \/ n > MaxInstallmentCount THEN 400
    ELSE IF u \notin Users THEN 404
    ELSE 201

\* the status create_plan answers on a cache miss
CreatePlanCode(u, total, n) ==
    IF ~CreatePlanValid(u, total, n) THEN 400
    ELSE IF u \notin Users THEN 404
    ELSE IF users[u] = DEBT_USER THEN 403
    ELSE 201

\* serializer.errors: the message of each field, "" for a field that is accepted
CreatePlanErrors(u, total, n) ==
    [user_id |-> IF u \notin Users THEN "User not found"
                 ELSE IF users[u] = DEBT_USER
                      THEN "User with DEBT_USER status cannot create new BNPL plans"
                      ELSE "",
     total_amount |-> IF total < 1 THEN "min_value" ELSE "",
     installment_count |-> IF n < MinInstallmentCount THEN "min_value"
                           ELSE IF n > MaxInstallmentCount THEN "max_value" ELSE ""]

\* the body of a create_plan response that is a failure
CreatePlanFailure(u, total, n, code) ==
    IF code = 400 THEN CreatePlanErrors(u, total, n)
    ELSE IF code = 404 THEN [detail |-> "Not found."]
    ELSE [error |-> "Users with DEBT_USER status cannot create new BNPL plans"]

\* a plan row that is created COMPLETED
PlanRowCompleted(u, total) == [user |-> u, total_amount |-> total, status |-> COMPLETED]

\* BNPLPlan.objects.create(user=user, total_amount=total_amount, status='ACTIVE')
PlanRow(u, total) == [user |-> u, total_amount |-> total, status |-> ACTIVE]

CreatePlan(u, total, n, k) ==
    LET chk == Lookup(k)
        code == CreatePlanCode(u, total, n)
        pid == Len(plans) + 1
        ps == Append(plans, PlanRow(u, total))
        insts == installments \o NewInstallments(pid, total, n, DateOf(now))
        data == PlanData(users, ps, insts, pid)
    IN  /\ txn = NoTxn
        /\ IF chk.hit
           THEN /\ last' = [op |-> "create_plan", key |-> k, user |-> u, code |-> 200, body |-> chk.data]
                /\ UNCHANGED <<plans, installments, idem>>
           ELSE IF code = 201
           THEN /\ Len(plans) < MaxPlans
                /\ plans' = ps
                /\ installments' = insts
                /\ idem' = Store(chk.table, k, data)
                /\ last' = [op |-> "create_plan", key |-> k, user |-> u, code |-> 201, body |-> data]
           ELSE IF code = 403
           \* a Response is returned: the transaction commits
           THEN /\ idem' = chk.table
                /\ last' = [op |-> "create_plan", key |-> k, user |-> u, code |-> code,
                            body |-> CreatePlanFailure(u, total, n, code)]
                /\ UNCHANGED <<plans, installments>>
           \* an exception leaves the atomic block: the transaction is rolled back
           ELSE /\ last' = [op |-> "create_plan", key |-> k, user |-> u, code |-> code,
                            body |-> CreatePlanFailure(u, total, n, code)]
                /\ UNCHANGED <<plans, installments, idem>>
        /\ UNCHANGED <<now, users, refunds, txn>>

\* create_plan when the store fails at one of its inserts: the exception leaves the
\* atomic block, which rolls back the plan and the installments inserted so far
CreatePlanFault(u, total, n) ==
    /\ txn = NoTxn
    /\ CreatePlanCode(u, total, n) = 201
    /\ last' = [op |-> "create_plan", key |-> NoKey, user |-> u, code |-> 500,
                body |-> [detail |-> "Server Error"]]
    /\ UNCHANGED <<now, users, plans, installments, refunds, idem, txn>>

----------------------------------------------------------------------------
\* repay (DebtManagementView.post)

\* validate_installment_ids: "installments.count() != len(value)"
SerializerCountOk(insts, ids) ==
    Cardinality(SeqToSet(ids) \cap (1..Len(insts))) = Len(ids)

\* validate_installment_ids: "for installment in installments: status != 'OVERDUE'"
SerializerRowsOk(insts, ids) ==
    \A i \in SeqToSet(ids) \cap (1..Len(insts)) : insts[i].status = OVERDUE

\* RepaymentSerializer: min_length and validate_installment_ids
RepaySerializerValid(insts, ids) ==
    /\ Len(ids) >= 1
    /\ SerializerCountOk(insts, ids)
    /\ SerializerRowsOk(insts, ids)

\* the filter without its status condition
RepayMatchedAnyStatus(insts, u, ids) ==
    {i \in SeqToSet(ids) \cap (1..Len(insts)) : OwnerOf(insts, i) = u}

\* the filter without its owner condition
RepayMatchedAnyOwner(insts, u, ids) ==
    {i \in SeqToSet(ids) \cap (1..Len(insts)) : insts[i].status = OVERDUE}

\* Installment.objects.filter(id__in=ids, plan__user=user, status=OVERDUE)
RepayMatched(insts, u, ids) ==
    {i \in SeqToSet(ids) \cap (1..Len(insts)) : OwnerOf(insts, i) = u /\ insts[i].status = OVERDUE}

\* the update without paid_at
MarkPaidNoStamp(insts, matched, t) ==
    [i \in 1..Len(insts) |->
        IF i \in matched THEN [insts[i] EXCEPT !.status = PAID] ELSE insts[i]]

\* installments.update(status=PAID, paid_at=timezone.now())
MarkPaid(insts, matched, t) ==
    [i \in 1..Len(insts) |->
        IF i \in matched THEN [insts[i] EXCEPT !.status = PAID, !.paid_at = Some(t)] ELSE insts[i]]

\* the re-evaluation without the query for the remaining overdue installments
StatusAfterRepayNoQuery(insts, u, status) ==
    IF status = DEBT_USER THEN NORMAL ELSE status

\* the user's status after the re-evaluation that follows the update
StatusAfterRepay(insts, u, status) ==
    IF OverdueOf(insts, u) = {} /\ status = DEBT_USER THEN NORMAL ELSE status

\* the status repay answers on a cache miss
RepayCode(u, ids) ==
    IF u \notin Users THEN 404
    ELSE IF ~RepaySerializerValid(installments, ids) THEN 400
    ELSE IF Cardinality(RepayMatched(installments, u, ids)) # Len(ids) THEN 400
    ELSE 200

Repay(u, ids, k) ==
    LET chk == Lookup(k)
        code == RepayCode(u, ids)
        rejected == u \in Users /\ RepaySerializerValid(installments, ids)
        insts == MarkPaid(installments, RepayMatched(installments, u, ids), now)
        status == StatusAfterRepay(insts, u, users[u])
        data == [message |-> "Repayment processed successfully",
                 paid_installments |-> Len(ids), user_status |-> status]
    IN  /\ txn = NoTxn
        /\ IF chk.hit
           THEN /\ last' = [op |-> "repay", key |-> k, code |-> 200, body |-> chk.data]
                /\ UNCHANGED <<users, installments, idem>>
           ELSE IF code = 200
           THEN /\ installments' = insts
                /\ users' = [users EXCEPT ![u] = status]
                /\ idem' = Store(chk.table, k, data)
                /\ last' = [op |-> "repay", key |-> k, code |-> 200, body |-> data]
           ELSE IF rejected
           \* the view's own check returns a Response: the transaction commits
           THEN /\ idem' = chk.table
                /\ last' = [op |-> "repay", key |-> k, code |-> code, body |-> NoBody]
                /\ UNCHANGED <<users, installments>>
           \* Http404 and ValidationError leave the atomic block: rolled back
           ELSE /\ last' = [op |-> "repay", key |-> k, code |-> code, body |-> NoBody]
                /\ UNCHANGED <<users, installments, idem>>
        /\ UNCHANGED <<now, plans, refunds, txn>>

----------------------------------------------------------------------------
\* sweep_overdue (tasks.check_overdue_payments)

\* "installment.status = OVERDUE": the row that installment.save() writes
OverdueRow(row) == [row EXCEPT !.status = OVERDUE]

\* "installment.status = OVERDUE; installment.save()" for every row of the query
MarkOverdue(insts, due) ==
    [i \in 1..Len(insts) |-> IF i \in due THEN OverdueRow(insts[i]) ELSE insts[i]]

\* users_to_update: the owners of the rows of the query
UsersToUpdate(insts, due) == {OwnerOf(insts, i) : i \in due}

\* a sweep that leaves the users as they are
MarkDebtUsersNone(us, touched) == us

\* "if user.status != DEBT_USER: user.status = DEBT_USER; user.save()"
MarkDebtUsers(us, touched) ==
    [u \in DOMAIN us |-> IF u \in touched /\ us[u] # DEBT_USER THEN DEBT_USER ELSE us[u]]

SweepOverdue ==
    LET due == PastDue(installments, Today)
        touched == UsersToUpdate(installments, due)
    IN  /\ txn = NoTxn
        /\ installments' = MarkOverdue(installments, due)
        /\ users' = MarkDebtUsers(users, touched)
        /\ last' = [op |-> "sweep", code |-> 0,
                    body |-> [updated |-> Cardinality(due), users |-> Cardinality(touched),
                              after_sweep |-> last.op = "sweep"]]
        /\ UNCHANGED <<now, plans, refunds, idem, txn>>

----------------------------------------------------------------------------
\* Requests of the model

\* installment ids a repayment may name: the rows of the table and one unknown id
IdChoices == 1..(Len(installments) + 1)

\* the lists a request may carry; the handler reads a list's length and its set of
\* ids, never the order, so the lists of the model are the sorted ones
IdLists ==
    UNION {{l \in [1..m -> IdChoices] : \A i \in 1..(m - 1) : l[i] <= l[i + 1]} : m \in 1..2}

\* repayment requests: any list for a user of the store, one for an unknown user
RepayRequests ==
    {[user |-> u, ids |-> ids] : u \in Users, ids \in IdLists} \cup {[user |-> "ux", ids |-> <<1>>]}

\* total_amount values a request may carry, in cents
Totals == {1000}

\* plan requests: the well-formed ones, and one for an unknown user, one with a
\* total_amount below min_value, one installment_count below and one above its range
CreateRequests ==
    {[user |-> u, total |-> t, count |-> n] : u \in Users, t \in Totals, n \in 1..2}
    \cup {[user |-> "ux", total |-> 1000, count |-> 1], [user |-> "u1", total |-> 0, count |-> 1],
          [user |-> "u1", total |-> 1000, count |-> 0],
          [user |-> "u1", total |-> 1000, count |-> MaxInstallmentCount + 1]}

HeaderKeys == Keys \cup {NoKey}

Next ==
    \/ AdvanceClock
    \/ \E r \in CreateRequests : CreatePlan(r.user, r.total, r.count, NoKey)
    \/ \E r \in CreateRequests : CreatePlanFault(r.user, r.total, r.count)
    \/ \E r \in RepayRequests : Repay(r.user, r.ids, NoKey)
    \/ SweepOverdue

Spec == Init /\ [][Next]_vars

\* the beat schedule starts check_overdue_payments every five minutes: a sweep that
\* has something to do is not put off for ever
SpecLive == Spec /\ WF_vars(SweepOverdue)

----------------------------------------------------------------------------
\* check_debt (DebtManagementView.get)

\* the query without its owner condition
DebtRowsAnyOwner(insts, u) == {i \in 1..Len(insts) : insts[i].status = OVERDUE}

\* Installment.objects.filter(plan__user=user, status=OVERDUE)
DebtRows(insts, u) == {i \in 1..Len(insts) : OwnerOf(insts, i) = u /\ insts[i].status = OVERDUE}

\* the response of check_debt; total_debt is the sum in cents (the handler renders the
\* Decimal with str), overdue_installments the ids of the rows it lists
DebtData(u) ==
    LET rows == DebtRows(installments, u)
    IN  [user_id |-> u, has_overdue |-> rows # {},
         total_debt |-> SumAmounts(installments, rows),
         overdue_installments |-> rows, user_status |-> users[u]]

CheckDebt(u) ==
    /\ txn = NoTxn
    /\ IF u \in Users
       THEN last' = [op |-> "check_debt", code |-> 200, body |-> DebtData(u)]
       ELSE last' = [op |-> "check_debt", code |-> 404, body |-> [detail |-> "Not found."]]
    /\ UNCHANGED <<now, users, plans, installments, refunds, idem, txn>>

\* the requests sent between the debt checks: plans of one or two installments and
\* repayments of one installment
NextDebt ==
    \/ AdvanceClock
    \/ \E u \in Users, n \in 1..2 : CreatePlan(u, 1000, n, NoKey)
    \/ \E u \in Users, i \in IdChoices : Repay(u, <<i>>, NoKey)
    \/ SweepOverdue
    \/ \E u \in UserIds : CheckDebt(u)

SpecDebt == Init /\ [][NextDebt]_vars

----------------------------------------------------------------------------
\* The amounts of a plan: one create_plan on the empty store, for every
\* total_amount up to MaxTotal cents and every installment_count of the valid range

AmountTotals == 1..MaxTotal

NextAmounts ==
    \E total \in AmountTotals, n \in MinInstallmentCount..MaxInstallmentCount :
        /\ plans = <<>>
        /\ CreatePlan("u1", total, n, NoKey)

SpecAmounts == Init /\ [][NextAmounts]_vars

----------------------------------------------------------------------------
\* The handlers called with the X-Idempotency-Key header

\* the times the clock visits here: the hour an entry of hour 0 expires at, the hour
\* after, and the day after the first installment of a plan of day 0 is due
IdemTimes == {ExpiryHours, ExpiryHours + 1, 24 * (InstallmentIntervalDays + 1)}

AdvanceIdemClock ==
    /\ \E t \in IdemTimes : t > now /\ now' = t
    /\ last' = [op |-> "advance_clock", code |-> 0, body |-> NoBody]
    /\ UNCHANGED <<users, plans, installments, refunds, idem, txn>>

\* plan requests sent with a key: the well-formed ones, one with a total_amount
\* below min_value and one for an unknown user
KeyedCreateRequests ==
    {[user |-> u, total |-> 1000, count |-> n] : u \in Users, n \in 1..2}
    \cup {[user |-> "u1", total |-> 0, count |-> 1], [user |-> "ux", total |-> 1000, count |-> 1]}

\* repayment requests sent with a key: any one id for a user of the store, and one
\* for an unknown user
KeyedRepayRequests ==
    {[user |-> u, ids |-> <<i>>] : u \in Users, i \in IdChoices} \cup {[user |-> "ux", ids |-> <<1>>]}

NextIdem ==
    \/ AdvanceIdemClock
    \/ \E r \in KeyedCreateRequests, k \in HeaderKeys : CreatePlan(r.user, r.total, r.count, k)
    \/ \E r \in KeyedRepayRequests, k \in HeaderKeys : Repay(r.user, r.ids, k)
    \/ SweepOverdue

SpecIdem == Init /\ [][NextIdem]_vars

----------------------------------------------------------------------------
\* The keyed handlers when the store of the response fails.  save_idempotency_response
\* catches the exception and logs it, so the handler goes on to its success
\* response; the failed save() has marked the handler's atomic block for rollback,
\* and leaving the block rolls back everything the request has written.

\* create_plan with key k whose IdempotencyKey.objects.create fails
CreatePlanStoreFault(u, total, n, k) ==
    LET chk == Lookup(k)
        pid == Len(plans) + 1
        ps == Append(plans, PlanRow(u, total))
        insts == installments \o NewInstallments(pid, total, n, DateOf(now))
    IN  /\ txn = NoTxn
        /\ k # NoKey
        /\ ~chk.hit
        /\ CreatePlanCode(u, total, n) = 201
        /\ Len(plans) < MaxPlans
        /\ last' = [op |-> "create_plan", key |-> k, user |-> u, code |-> 201,
                    body |-> PlanData(users, ps, insts, pid)]
        /\ UNCHANGED <<now, users, plans, installments, refunds, idem, txn>>

\* repay with key k whose IdempotencyKey.objects.create fails
RepayStoreFault(u, ids, k) ==
    LET chk == Lookup(k)
        insts == MarkPaid(installments, RepayMatched(installments, u, ids), now)
        status == StatusAfterRepay(insts, u, users[u])
    IN  /\ txn = NoTxn
        /\ k # NoKey
        /\ ~chk.hit
        /\ RepayCode(u, ids) = 200
        /\ last' = [op |-> "repay", key |-> k, code |-> 200,
                    body |-> [message |-> "Repayment processed successfully",
                              paid_installments |-> Len(ids), user_status |-> status]]
        /\ UNCHANGED <<now, users, plans, installments, refunds, idem, txn>>

NextStoreFault ==
    \/ AdvanceIdemClock
    \/ \E r \in KeyedCreateRequests, k \in HeaderKeys : CreatePlan(r.user, r.total, r.count, k)
    \/ \E r \in KeyedRepayRequests, k \in HeaderKeys : Repay(r.user, r.ids, k)
    \/ SweepOverdue
    \/ \E r \in KeyedCreateRequests, k \in Keys : CreatePlanStoreFault(r.user, r.total, r.count, k)
    \/ \E r \in KeyedRepayRequests, k \in Keys : RepayStoreFault(r.user, r.ids, k)

SpecStoreFault == Init /\ [][NextStoreFault]_vars

----------------------------------------------------------------------------

\* Refunds (RefundViewSet)

\* the stored transaction ids, and the transaction_id values a request may send:
\* a stored id, one with a leading blank, or the empty string
TxnIds == {"t1", "t2"}
RawTxnIds == TxnIds \cup {" t1", ""}

\* CharField.to_internal_value: str(data).strip()
Strip(raw) == IF raw = " t1" THEN "t1" ELSE raw

\* reasons a request may carry
Reasons == {"", "defect"}

\* refund requests: a first request per transaction id, requests that repeat an id
\* with the same or with other fields, one whose id carries a leading blank, and one
\* each for an unknown user, a missing transaction_id and an amount below min_value
RefundRequests ==
    {[user |-> "u1", txn |-> "t1", amount |-> 100, reason |-> ""],
     [user |-> "u2", txn |-> "t1", amount |-> 7550, reason |-> "defect"],
     [user |-> "u1", txn |-> " t1", amount |-> 100, reason |-> ""],
     [user |-> "u2", txn |-> "t2", amount |-> 100, reason |-> "defect"],
     [user |-> "ux", txn |-> "t1", amount |-> 100, reason |-> ""],
     [user |-> "u1", txn |-> "", amount |-> 100, reason |-> ""],
     [user |-> "u1", txn |-> "t2", amount |-> 0, reason |-> ""]}

\* Refund.objects.filter(transaction_id=t): the ids of the rows found
RefundsWith(rs, t) == {i \in 1..Len(rs) : rs[i].transaction_id = t}

\* RefundSerializer(refund).data
RefundData(rs, i) ==
    [id |-> i, user_id |-> rs[i].user, transaction_id |-> rs[i].transaction_id,
     amount |-> rs[i].amount, status |-> rs[i].status, reason |-> rs[i].reason,
     processed_at |-> rs[i].processed_at]

\* CreateRefundSerializer.is_valid
CreateRefundValid(rs, u, raw, amount) ==
    /\ Strip(u) \in Users
    /\ Strip(raw) # ""
    /\ RefundsWith(rs, Strip(raw)) = {}
    /\ amount >= 1

\* the row "if transaction_id: existing_refund = ....first()" finds, 0 when none;
\* the lookup uses request.data, the transaction_id as it was sent
ExistingRefund(rs, raw) ==
    IF raw # "" /\ RefundsWith(rs, raw) # {}
    THEN CHOOSE i \in RefundsWith(rs, raw) : \A j \in RefundsWith(rs, raw) : i <= j
    ELSE 0

\* sent_as is no column: it records the transaction_id as the creating request sent it
CreateRefund(u, raw, amount, reason) ==
    LET found == ExistingRefund(refunds, raw)
        row == [user |-> Strip(u), transaction_id |-> Strip(raw), amount |-> amount,
                status |-> PENDING, reason |-> reason, processed_at |-> Null,
                sent_as |-> raw]
        rs == Append(refunds, row)
    IN  /\ txn = NoTxn
        /\ IF found # 0
           THEN /\ last' = [op |-> "create_refund", code |-> 200, sent |-> raw,
                            body |-> RefundData(refunds, found)]
                /\ UNCHANGED refunds
           ELSE IF ~CreateRefundValid(refunds, u, raw, amount)
           THEN /\ last' = [op |-> "create_refund", code |-> 400, sent |-> raw, body |-> NoBody]
                /\ UNCHANGED refunds
           ELSE /\ refunds' = rs
                /\ last' = [op |-> "create_refund", code |-> 201, sent |-> raw,
                            body |-> RefundData(rs, Len(rs))]
        /\ UNCHANGED <<now, users, plans, installments, idem, txn>>

\* refund.reason on a rejection
RejectedReason(reason) == IF reason # "" THEN "Rejected: " \o reason ELSE "Rejected"

\* the check without the condition
CanProcessAny(refund) == TRUE

\* "if refund.status != RefundStatus.PENDING: return 400"
CanProcess(refund) == refund.status = PENDING

\* the row approve_refund saves on approve
ApprovedRow(row, t) == [row EXCEPT !.status = APPROVED, !.processed_at = Some(t)]

\* the row approve_refund saves on reject
RejectedRow(row, reason, t) ==
    [row EXCEPT !.status = REJECTED, !.reason = RejectedReason(reason), !.processed_at = Some(t)]

\* approve_refund: pk 0 stands for an id of no row
ApproveRefund(pk, action, reason) ==
    /\ txn = NoTxn
    /\ IF pk \notin 1..Len(refunds)
       THEN /\ last' = [op |-> "approve_refund", code |-> 404, body |-> NoBody]
            /\ UNCHANGED refunds
       ELSE IF ~CanProcess(refunds[pk]) \/ action \notin {"approve", "reject"}
       THEN /\ last' = [op |-> "approve_refund", code |-> 400, body |-> NoBody]
            /\ UNCHANGED refunds
       ELSE LET rs == IF action = "approve"
                      THEN [refunds EXCEPT ![pk] = ApprovedRow(@, now)]
                      ELSE [refunds EXCEPT ![pk] = RejectedRow(@, reason, now)]
            IN  /\ refunds' = rs
                /\ last' = [op |-> "approve_refund", code |-> 200, body |-> RefundData(rs, pk)]
    /\ UNCHANGED <<now, users, plans, installments, idem, txn>>

\* the row without the stamp
CancelledRowNoStamp(row, t) == [row EXCEPT !.status = REJECTED, !.reason = "Cancelled by user"]

\* the row cancel_refund saves
CancelledRow(row, t) ==
    [row EXCEPT !.status = REJECTED, !.reason = "Cancelled by user", !.processed_at = Some(t)]

\* cancel_refund
CancelRefund(pk) ==
    /\ txn = NoTxn
    /\ IF pk \notin 1..Len(refunds)
       THEN /\ last' = [op |-> "cancel_refund", code |-> 404, body |-> NoBody]
            /\ UNCHANGED refunds
       ELSE IF ~CanProcess(refunds[pk])
       THEN /\ last' = [op |-> "cancel_refund", code |-> 400, body |-> NoBody]
            /\ UNCHANGED refunds
       ELSE LET rs == [refunds EXCEPT ![pk] = CancelledRow(@, now)]
            IN  /\ refunds' = rs
                /\ last' = [op |-> "cancel_refund", code |-> 200, body |-> RefundData(rs, pk)]
    /\ UNCHANGED <<now, users, plans, installments, idem, txn>>

NextRefund ==
    \/ AdvanceClock
    \/ \E r \in RefundRequests : CreateRefund(r.user, r.txn, r.amount, r.reason)
    \/ \E pk \in 0..Len(refunds), a \in {"approve", "reject", "hold"}, r \in Reasons :
          ApproveRefund(pk, a, r)
    \/ \E pk \in 0..Len(refunds) : CancelRefund(pk)

SpecRefund == Init /\ [][NextRefund]_vars

----------------------------------------------------------------------------
\* Refund webhooks (RefundWebhookView, tasks.process_refund_webhook) and the admin
\* actions of RefundAdmin

\* the statuses a webhook may carry: the four the view accepts and one it refuses
ValidStatuses == {"approved", "rejected", "processing", "failed"}
WebhookStatuses == ValidStatuses \cup {"bogus"}

\* merchant_reference: absent ("") or given
Refs == {"", "m1"}

\* refund_id of a webhook: the id of the first refund, a transaction id, or absent
WebhookIds == {"id1", "t1", ""}

\* the row Refund.objects.get(id=refund_id) finds, 0 when there is none
PkOf(rid) == IF rid = "id1" /\ Len(refunds) >= 1 THEN 1 ELSE 0

\* the row the task saves
TaskRow(row, st, ref, t) ==
    IF st = "approved" THEN [row EXCEPT !.status = APPROVED, !.processed_at = Some(t)]
    ELSE IF st = "rejected"
    THEN [row EXCEPT !.status = REJECTED,
                     !.reason = "Rejected via webhook: " \o (IF ref # "" THEN ref ELSE "No reference"),
                     !.processed_at = Some(t)]
    ELSE row

\* the refunds the task leaves: the row found by its id is saved, the others stay
RefundsAfterTask(rid, st, ref) ==
    IF PkOf(rid) = 0 THEN refunds
    ELSE [refunds EXCEPT ![PkOf(rid)] = TaskRow(@, st, ref, now)]

\* process_refund_webhook, run by a worker for a message the view has queued.  The
\* broker delivers a message at any later time and the view queues any message of a
\* valid status, so the task may run at any time with any such message.
ProcessRefundWebhook(rid, st, ref) ==
    LET pk == PkOf(rid)
    IN  /\ txn = NoTxn
        /\ st \in ValidStatuses
        /\ rid # ""
        /\ IF pk = 0
           THEN /\ last' = [op |-> "webhook_task", code |-> 500, body |-> NoBody]
                /\ UNCHANGED refunds
           ELSE /\ refunds' = RefundsAfterTask(rid, st, ref)
                /\ last' = [op |-> "webhook_task", code |-> 0,
                            body |-> [id |-> pk, status |-> st]]
        /\ UNCHANGED <<now, users, plans, installments, idem, txn>>

\* User.objects.first(): the first user by primary key
FirstUser == "u1"

\* the status the synchronous fallback sets
SyncStatus(st) ==
    IF st = "approved" THEN APPROVED
    ELSE IF st \in {"rejected", "failed"} THEN REJECTED
    ELSE PENDING

\* Refund.objects.get_or_create(transaction_id=refund_id, defaults=...): the table
\* with the row that is found or created
GetOrCreate(rs, rid, ref) ==
    IF RefundsWith(rs, rid) # {} THEN rs
    ELSE Append(rs, [user |-> FirstUser, transaction_id |-> rid, amount |-> 0,
                     status |-> PENDING,
                     reason |-> "Webhook from " \o (IF ref # "" THEN ref ELSE "unknown"),
                     processed_at |-> Null, sent_as |-> rid])

\* the refunds the synchronous fallback leaves: the row with the refund_id as its
\* transaction_id, found or created, is saved with the mapped status
RefundsAfterFallback(rid, st, ref) ==
    LET rs == GetOrCreate(refunds, rid, ref)
        pk == CHOOSE i \in RefundsWith(rs, rid) : TRUE
    IN  [rs EXCEPT ![pk].status = SyncStatus(st)]

\* RefundWebhookView.post; queued tells whether process_refund_webhook.delay succeeds
\* (the task then runs later) or raises, which starts the synchronous fallback
WebhookPost(rid, st, ref, queued) ==
    /\ txn = NoTxn
    /\ IF rid = "" \/ st \notin ValidStatuses
       THEN /\ last' = [op |-> "webhook", code |-> 400, body |-> NoBody]
            /\ UNCHANGED refunds
       ELSE IF queued
       THEN /\ last' = [op |-> "webhook", code |-> 200,
                        body |-> [refund_id |-> rid, status |-> st, processing_mode |-> "async"]]
            /\ UNCHANGED refunds
       ELSE /\ refunds' = RefundsAfterFallback(rid, st, ref)
            /\ last' = [op |-> "webhook", code |-> 200,
                        body |-> [refund_id |-> rid, status |-> st, processing_mode |-> "sync"]]
    /\ UNCHANGED <<now, users, plans, installments, idem, txn>>

\* RefundAdmin.approve_refunds and reject_refunds on the selected rows
AdminAction(selected, status) ==
    /\ txn = NoTxn
    /\ refunds' = [i \in 1..Len(refunds) |->
                      IF i \in selected /\ refunds[i].status = PENDING
                      THEN [refunds[i] EXCEPT !.status = status, !.processed_at = Some(now)]
                      ELSE refunds[i]]
    /\ last' = [op |-> "admin", code |-> 0,
                body |-> [updated |-> Cardinality({i \in selected : refunds[i].status = PENDING})]]
    /\ UNCHANGED <<now, users, plans, installments, idem, txn>>

NextWebhook ==
    \/ CreateRefund("u2", "t1", 100, "")
    \/ \E pk \in 1..Len(refunds), a \in {"approve", "reject"} : ApproveRefund(pk, a, "")
    \/ \E pk \in 1..Len(refunds) : CancelRefund(pk)
    \/ \E rid \in WebhookIds, st \in WebhookStatuses, ref \in Refs : ProcessRefundWebhook(rid, st, ref)
    \/ \E rid \in WebhookIds, st \in WebhookStatuses, ref \in Refs, queued \in BOOLEAN :
          WebhookPost(rid, st, ref, queued)
    \/ \E selected \in SUBSET (1..Len(refunds)), status \in {APPROVED, REJECTED} :
          selected # {} /\ AdminAction(selected, status)

SpecWebhook == Init /\ [][NextWebhook]_vars

----------------------------------------------------------------------------
\* Interleaved runs: repay requests and the sweep as transactions whose statements
\* are steps.  A transaction reads the committed rows and its own writes; its writes
\* reach the tables at its commit.  No run asks for a lock (there is no
\* select_for_update); the writes of an UPDATE hold their rows until the commit, so a
\* statement that writes a row another open transaction has written waits for it.

\* the installments as run s reads them
InstView(s) ==
    [i \in 1..Len(installments) |->
        IF \E w \in txn[s].wi : w.id = i
        THEN (CHOOSE w \in txn[s].wi : w.id = i).row
        ELSE installments[i]]

\* the tables once the writes of run s are committed
InstCommitted(s) == InstView(s)
UsersCommitted(s) ==
    [u \in DOMAIN users |->
        IF \E w \in txn[s].wu : w.user = u
        THEN (CHOOSE w \in txn[s].wu : w.user = u).status
        ELSE users[u]]

\* the rows the other open transactions have written
LockedRows(s) == UNION {{w.id : w \in txn[o].wi} : o \in Sessions \ {s}}
LockedUsers(s) == UNION {{w.user : w \in txn[o].wu} : o \in Sessions \ {s}}

\* the status of user u that run s holds in memory
HeldStatus(s, u) == (CHOOSE r \in txn[s].ustat : r.user = u).status

\* run s ends with status code c; nothing it wrote is kept
Finish(s, c) ==
    txn' = [txn EXCEPT ![s].pc = "done", ![s].code = c, ![s].wi = {}, ![s].wu = {},
                       ![s].wp = {}, ![s].wk = {}, ![s].dk = {}, ![s].wr = {}]

\* "user = get_object_or_404(User, user_id=user_id)"
RepayGetUser(s, u, ids) ==
    /\ txn[s].pc = "idle"
    /\ txn' = [txn EXCEPT ![s].pc = "serializer_count", ![s].user = u, ![s].ids = ids,
                          ![s].ustat = {[user |-> u, status |-> users[u]]}]
    /\ UNCHANGED <<now, users, plans, installments, refunds, idem, last>>

\* validate_installment_ids: the count query
RepaySerializerCount(s) ==
    /\ txn[s].pc = "serializer_count"
    /\ IF SerializerCountOk(InstView(s), txn[s].ids)
       THEN txn' = [txn EXCEPT ![s].pc = "serializer_rows"]
       ELSE Finish(s, 400)
    /\ UNCHANGED <<now, users, plans, installments, refunds, idem, last>>

\* validate_installment_ids: the query the loop iterates
RepaySerializerRows(s) ==
    /\ txn[s].pc = "serializer_rows"
    /\ IF SerializerRowsOk(InstView(s), txn[s].ids)
       THEN txn' = [txn EXCEPT ![s].pc = "view_count"]
       ELSE Finish(s, 400)
    /\ UNCHANGED <<now, users, plans, installments, refunds, idem, last>>

\* "if installments.count() != len(installment_ids)"
RepayViewCount(s) ==
    /\ txn[s].pc = "view_count"
    /\ IF Cardinality(RepayMatched(InstView(s), txn[s].user, txn[s].ids)) = Len(txn[s].ids)
       THEN txn' = [txn EXCEPT ![s].pc = "update"]
       ELSE Finish(s, 400)
    /\ UNCHANGED <<now, users, plans, installments, refunds, idem, last>>

\* "installments.update(status=PAID, paid_at=timezone.now())": the filter is applied
\* again by the UPDATE, to the rows as they are once no other transaction holds them
RepayUpdate(s) ==
    LET view == InstView(s)
        matched == RepayMatched(view, txn[s].user, txn[s].ids)
        paid == MarkPaid(view, matched, now)
    IN  /\ txn[s].pc = "update"
        /\ matched \cap LockedRows(s) = {}
        /\ txn' = [txn EXCEPT ![s].pc = "remaining",
                              ![s].wi = {w \in @ : w.id \notin matched}
                                        \cup {[id |-> i, row |-> paid[i]] : i \in matched}]
        /\ UNCHANGED <<now, users, plans, installments, refunds, idem, last>>

\* the remaining_overdue query and "user.status = UserStatus.NORMAL"
RepayRemaining(s) ==
    LET u == txn[s].user
        held == HeldStatus(s, u)
        status == StatusAfterRepay(InstView(s), u, held)
    IN  /\ txn[s].pc = "remaining"
        /\ txn' = [txn EXCEPT ![s].pc = IF status # held THEN "save_user" ELSE "commit",
                              ![s].ustat = {[user |-> u, status |-> status]}]
        /\ UNCHANGED <<now, users, plans, installments, refunds, idem, last>>

\* "user.save()"
RepaySaveUser(s) ==
    LET u == txn[s].user
    IN  /\ txn[s].pc = "save_user"
        /\ u \notin LockedUsers(s)
        /\ txn' = [txn EXCEPT ![s].pc = "commit",
                              ![s].wu = {[user |-> u, status |-> HeldStatus(s, u)]}]
        /\ UNCHANGED <<now, users, plans, installments, refunds, idem, last>>

\* the 200 response leaves the atomic block: commit
RepayCommit(s) ==
    /\ txn[s].pc = "commit"
    /\ installments' = InstCommitted(s)
    /\ users' = UsersCommitted(s)
    /\ Finish(s, 200)
    /\ UNCHANGED <<now, plans, refunds, idem, last>>

\* "if not overdue_installments.exists()"; the filter's date is taken when the
\* queryset is built
SweepExists ==
    /\ txn["sw"].pc = "idle"
    /\ IF PastDue(installments, Today) = {}
       THEN txn' = [txn EXCEPT !["sw"].pc = "done", !["sw"].today = Today]
       ELSE txn' = [txn EXCEPT !["sw"].pc = "select", !["sw"].today = Today]
    /\ UNCHANGED <<now, users, plans, installments, refunds, idem, last>>

\* "for installment in overdue_installments": the query with select_related
SweepSelect ==
    LET due == PastDue(installments, txn["sw"].today)
    IN  /\ txn["sw"].pc = "select"
        /\ txn' = [txn EXCEPT !["sw"].pc = "save",
                              !["sw"].rows = {[id |-> i, row |-> installments[i]] : i \in due},
                              !["sw"].ustat = {[user |-> u, status |-> users[u]] :
                                                  u \in UsersToUpdate(installments, due)}]
        /\ UNCHANGED <<now, users, plans, installments, refunds, idem, last>>

\* the rows of the query the loop has not saved yet
SweepUnsaved == {r \in txn["sw"].rows : \A w \in txn["sw"].wi : w.id # r.id}

\* the users of users_to_update the second loop has yet to save
SweepUsersUnsaved ==
    {r \in txn["sw"].ustat : r.status # DEBT_USER /\ \A w \in txn["sw"].wu : w.user # r.user}

\* "installment.status = OVERDUE; installment.save()" for the next row, in the
\* model's default ordering (due_date)
SweepSaveRow ==
    /\ txn["sw"].pc = "save"
    /\ \E r \in SweepUnsaved :
          /\ \A q \in SweepUnsaved : r.row.due_date <= q.row.due_date
          /\ r.id \notin LockedRows("sw")
          /\ txn' = [txn EXCEPT !["sw"].wi = @ \cup {[id |-> r.id, row |-> OverdueRow(r.row)]}]
    /\ UNCHANGED <<now, users, plans, installments, refunds, idem, last>>

\* "if user.status != DEBT_USER: user.status = DEBT_USER; user.save()"
SweepSaveUser ==
    /\ txn["sw"].pc = "save"
    /\ SweepUnsaved = {}
    /\ \E r \in SweepUsersUnsaved :
          /\ r.user \notin LockedUsers("sw")
          /\ txn' = [txn EXCEPT !["sw"].wu = @ \cup {[user |-> r.user, status |-> DEBT_USER]}]
    /\ UNCHANGED <<now, users, plans, installments, refunds, idem, last>>

\* the atomic block of the task ends: commit
SweepCommit ==
    /\ txn["sw"].pc = "save"
    /\ SweepUnsaved = {}
    /\ SweepUsersUnsaved = {}
    /\ installments' = InstCommitted("sw")
    /\ users' = UsersCommitted("sw")
    /\ Finish("sw", 0)
    /\ UNCHANGED <<now, plans, refunds, idem, last>>

\* the requests of the interleaved runs: the first user's for each list over the two
\* installments and for an unknown id, and one of the second user
ConcRequests ==
    {[user |-> "u1", ids |-> l] : l \in {<<1>>, <<2>>, <<1, 2>>, <<3>>}}
    \cup {[user |-> "u2", ids |-> <<1>>]}

\* the state the runs start in, which the sequential machine reaches by a plan of
\* two installments for u1 on day 0 and a sweep the day after the first is due:
\* the first installment is OVERDUE, the second UPCOMING, u1 is DEBT_USER
ConcInit ==
    /\ now = 24 * (InstallmentIntervalDays + 1)
    /\ users = MarkDebtUsers([u \in Users |-> NORMAL], {"u1"})
    /\ plans = <<[user |-> "u1", total_amount |-> 1000, status |-> ACTIVE]>>
    /\ installments = MarkOverdue(NewInstallments(1, 1000, 2, 0), {1})
    /\ refunds = <<>>
    /\ idem = {}
    /\ last = [op |-> "sweep", code |-> 0,
               body |-> [updated |-> 1, users |-> 1, after_sweep |-> FALSE]]
    /\ txn = NoTxn

NextConc ==
    \/ AdvanceClock
    \/ \E s \in RepaySessions, r \in ConcRequests : RepayGetUser(s, r.user, r.ids)
    \/ \E s \in RepaySessions : RepaySerializerCount(s)
    \/ \E s \in RepaySessions : RepaySerializerRows(s)
    \/ \E s \in RepaySessions : RepayViewCount(s)
    \/ \E s \in RepaySessions : RepayUpdate(s)
    \/ \E s \in RepaySessions : RepayRemaining(s)
    \/ \E s \in RepaySessions : RepaySaveUser(s)
    \/ \E s \in RepaySessions : RepayCommit(s)
    \/ SweepExists
    \/ SweepSelect
    \/ SweepSaveRow
    \/ SweepSaveUser
    \/ SweepCommit

SpecConc == ConcInit /\ [][NextConc]_vars

----------------------------------------------------------------------------
\* Interleaved runs of create_plan.  The id of a plan or an installment is a uuid
\* the request makes when it builds the row, whether or not its transaction commits.
\* The model numbers the ids in the order of the inserts: an insert takes the next
\* row of the table, which holds no record until the commit, and none for ever
\* after a rollback or a delete.

\* the status of a row that holds no record, which no query matches
NoRow == "NONE"

ReservedPlan == [user |-> "", total_amount |-> 0, status |-> NoRow]

ReservedInstallment(pid) ==
    [plan |-> pid, amount_due |-> 0, due_date |-> 0, status |-> NoRow, paid_at |-> Null]

\* the plans once the writes of run s are committed
PlansCommitted(s) ==
    [i \in 1..Len(plans) |->
        IF \E w \in txn[s].wp : w.id = i
        THEN (CHOOSE w \in txn[s].wp : w.id = i).row
        ELSE plans[i]]

\* the idempotency keys as run s reads them, and as they are once it has committed
IdemView(s) == {e \in idem : e.key \notin txn[s].dk} \cup txn[s].wk

\* the keys the other open transactions have inserted or deleted
LockedKeys(s) == UNION {{e.key : e \in txn[o].wk} \cup txn[o].dk : o \in Sessions \ {s}}

\* an insert that never violates the primary key
KeyConflictNever(table, k) == FALSE

\* IdempotencyKey.objects.create raises IntegrityError: the key is there.  Raised by
\* a save() inside an atomic block, the error marks the transaction for rollback,
\* also when the caller catches it.
KeyConflict(table, k) == \E e \in table : e.key = k

\* "cached_response = check_idempotency(idempotency_key)" of a request sent with
\* key k (NoKey: no header), for user u and n installments
CreateCheckIdempotency(s, u, total, n, k) ==
    LET found == {e \in idem : e.key = k}
        started == [txn[s] EXCEPT !.user = u, !.total = total, !.count = n, !.key = k,
                                  !.early = \A o \in CreateSessions \ {s} :
                                               txn[o].pc \notin {"commit", "done"}]
    IN  /\ txn[s].pc = "idle"
        /\ IF k = NoKey \/ found = {}
           THEN txn' = [txn EXCEPT ![s] = [started EXCEPT !.pc = "serializer"]]
           ELSE IF IsExpired(Entry(k), now)
           THEN /\ k \notin LockedKeys(s)
                /\ txn' = [txn EXCEPT ![s] = [started EXCEPT !.pc = "serializer", !.dk = {k}]]
           ELSE txn' = [txn EXCEPT ![s] = [started EXCEPT !.pc = "done", !.code = 200,
                                                          !.body = Entry(k).response_data]]
        /\ UNCHANGED <<now, users, plans, installments, refunds, idem, last>>

\* serializer.is_valid: validate_user_id reads the user; a ValidationError leaves
\* the atomic block, which rolls back
CreateSerializer(s) ==
    /\ txn[s].pc = "serializer"
    /\ IF CreatePlanValid(txn[s].user, txn[s].total, txn[s].count)
       THEN txn' = [txn EXCEPT ![s].pc = "get_user"]
       ELSE Finish(s, 400)
    /\ UNCHANGED <<now, users, plans, installments, refunds, idem, last>>

\* "user = get_object_or_404(...); if user.status == DEBT_USER: return Response(403)";
\* the returned Response commits
CreateGetUser(s) ==
    LET u == txn[s].user
    IN  /\ txn[s].pc = "get_user"
        /\ IF users[u] = DEBT_USER
           THEN /\ idem' = IdemView(s)
                /\ Finish(s, 403)
           ELSE /\ txn' = [txn EXCEPT ![s].pc = "insert",
                                      ![s].ustat = {[user |-> u, status |-> users[u]]}]
                /\ UNCHANGED idem
        /\ UNCHANGED <<now, users, plans, installments, refunds, last>>

\* BNPLPlan.objects.create, the Installment.objects.create of the loop and
\* "response_data = BNPLPlanSerializer(plan).data"
CreateInsert(s) ==
    LET u == txn[s].user
        n == txn[s].count
        pid == Len(plans) + 1
        row == PlanRow(u, txn[s].total)
        rows == NewInstallments(pid, txn[s].total, n, DateOf(now))
        data == PlanData([users EXCEPT ![u] = HeldStatus(s, u)], Append(plans, row),
                         installments \o rows, pid)
    IN  /\ txn[s].pc = "insert"
        /\ plans' = Append(plans, ReservedPlan)
        /\ installments' = installments \o [i \in 1..n |-> ReservedInstallment(pid)]
        /\ txn' = [txn EXCEPT ![s].pc = IF txn[s].key = NoKey THEN "commit" ELSE "store",
                              ![s].wp = {[id |-> pid, row |-> row]},
                              ![s].wi = {[id |-> Len(installments) + i, row |-> rows[i]] : i \in 1..n},
                              ![s].body = data]
        /\ UNCHANGED <<now, users, refunds, idem, last>>

\* "save_idempotency_response(idempotency_key, response_data)": the insert waits for
\* an open transaction that has written the key; its IntegrityError is caught
CreateStore(s) ==
    LET k == txn[s].key
        view == IdemView(s)
    IN  /\ txn[s].pc = "store"
        /\ k \notin LockedKeys(s)
        /\ txn' = [txn EXCEPT ![s].pc = "commit",
                              ![s].broken = KeyConflict(view, k),
                              ![s].wk = SaveIdempotencyResponse(view, k, txn[s].body) \ view]
        /\ UNCHANGED <<now, users, plans, installments, refunds, idem, last>>

\* the 201 response leaves the atomic block: commit, or rollback when the
\* transaction is marked for it
CreateCommit(s) ==
    /\ txn[s].pc = "commit"
    /\ IF txn[s].broken
       THEN UNCHANGED <<plans, installments, idem>>
       ELSE /\ plans' = PlansCommitted(s)
            /\ installments' = InstCommitted(s)
            /\ idem' = IdemView(s)
    /\ Finish(s, 201)
    /\ UNCHANGED <<now, users, refunds, last>>

\* the requests of the interleaved create_plan runs
ConcCreateRequests ==
    {[user |-> u, total |-> t, count |-> n, key |-> k] :
        u \in Users, t \in Totals, n \in 1..2, k \in HeaderKeys}

\* the entry a create_plan of hour 0 with key k1 stored for the first plan
FirstEntry ==
    [key |-> "k1", expires_at |-> ExpiryHours,
     response_data |-> PlanData([u \in Users |-> NORMAL],
                                <<[user |-> "u1", total_amount |-> 1000, status |-> ACTIVE]>>,
                                NewInstallments(1, 1000, 1, 0), 1)]

\* the state the runs start in, which the sequential machine reaches by a plan of
\* one installment for u1 on day 0, sent with key k1 or with none, and the clock
\* moving to the day after the installment is due: no sweep has run since
CreateInit ==
    /\ now = 24 * (InstallmentIntervalDays + 1)
    /\ users = [u \in Users |-> NORMAL]
    /\ plans = <<[user |-> "u1", total_amount |-> 1000, status |-> ACTIVE]>>
    /\ installments = NewInstallments(1, 1000, 1, 0)
    /\ refunds = <<>>
    /\ idem \in {{}, {FirstEntry}}
    /\ last = [op |-> "advance_clock", code |-> 0, body |-> NoBody]
    /\ txn = NoTxn

NextCreate ==
    \/ \E s \in CreateSessions, r \in ConcCreateRequests :
          CreateCheckIdempotency(s, r.user, r.total, r.count, r.key)
    \/ \E s \in CreateSessions : CreateSerializer(s)
    \/ \E s \in CreateSessions : CreateGetUser(s)
    \/ \E s \in CreateSessions : CreateInsert(s)
    \/ \E s \in CreateSessions : CreateStore(s)
    \/ \E s \in CreateSessions : CreateCommit(s)
    \/ SweepExists
    \/ SweepSelect
    \/ SweepSaveRow
    \/ SweepSaveUser
    \/ SweepCommit

SpecCreate == CreateInit /\ [][NextCreate]_vars

----------------------------------------------------------------------------
\* Deleting a plan.  BNPLPlanViewSet is a ModelViewSet, so the router serves
\* DELETE /plans/{id}/ with the mixin's destroy: the plan is deleted and, by the
\* CASCADE of Installment.plan, so are its installments.  The ids of deleted rows
\* stay taken; their rows hold no record.

\* the installments after the delete of plan pid
CascadeDelete(insts, pid) ==
    [i \in 1..Len(insts) |-> IF insts[i].plan = pid THEN ReservedInstallment(pid) ELSE insts[i]]

\* destroy: 404 when there is no such plan, 204 after the delete; no user is written
DestroyPlan(pid) ==
    /\ txn = NoTxn
    /\ pid \in 1..Len(plans)
    /\ IF plans[pid].status = NoRow
       THEN /\ last' = [op |-> "destroy_plan", user |-> "", code |-> 404, body |-> [detail |-> "Not found."]]
            /\ UNCHANGED <<plans, installments>>
       ELSE /\ plans' = [plans EXCEPT ![pid] = ReservedPlan]
            /\ installments' = CascadeDelete(installments, pid)
            /\ last' = [op |-> "destroy_plan", user |-> plans[pid].user, code |-> 204, body |-> NoBody]
    /\ UNCHANGED <<now, users, refunds, idem, txn>>

NextDelete ==
    \/ Next
    \/ \E pid \in 1..MaxPlans : DestroyPlan(pid)

SpecDelete == Init /\ [][NextDelete]_vars

----------------------------------------------------------------------------

\* Interleaved runs of create_refund and of the webhook's synchronous fallback.
\* create_refund is one transaction; the webhook view runs in autocommit, each of
\* its statements a transaction of its own.  A refund's id is a uuid made by the
\* request; the model numbers the refunds in the order they reach the table.

\* the refunds the other open transactions have inserted
LockedTxnIds(s) == UNION {{r.transaction_id : r \in txn[o].wr} : o \in Sessions \ {s}}

\* an insert that never violates the unique index
TxnIdConflictNever(rs, t) == FALSE

\* the unique index on Refund.transaction_id refuses the insert
TxnIdConflict(rs, t) == RefundsWith(rs, t) # {}

\* "existing_refund = Refund.objects.filter(transaction_id=transaction_id).first()"
\* of a request of user u sending transaction_id raw
RefundExisting(s, u, raw, amount) ==
    LET found == ExistingRefund(refunds, raw)
        started == [txn[s] EXCEPT !.user = u, !.txid = raw, !.amount = amount]
    IN  /\ txn[s].pc = "idle"
        /\ IF found # 0
           THEN txn' = [txn EXCEPT ![s] = [started EXCEPT !.pc = "done", !.code = 200,
                                                          !.body = RefundData(refunds, found)]]
           ELSE txn' = [txn EXCEPT ![s] = [started EXCEPT !.pc = "serializer"]]
        /\ UNCHANGED <<now, users, plans, installments, refunds, idem, last>>

\* serializer.is_valid with validate_transaction_id and validate_user_id, and
\* get_object_or_404; early records that no other create_refund had inserted by now
RefundSerializer(s) ==
    /\ txn[s].pc = "serializer"
    /\ IF CreateRefundValid(refunds, txn[s].user, txn[s].txid, txn[s].amount)
       THEN txn' = [txn EXCEPT ![s].pc = "insert",
                               ![s].early = \A o \in RefundSessions \ {s} :
                                               txn[o].pc \notin {"commit", "done"}]
       ELSE Finish(s, 400)
    /\ UNCHANGED <<now, users, plans, installments, refunds, idem, last>>

\* Refund.objects.create: the insert waits for an open transaction that has
\* inserted the transaction_id; an IntegrityError is not caught and leaves the
\* atomic block
RefundInsert(s) ==
    LET t == Strip(txn[s].txid)
        row == [user |-> Strip(txn[s].user), transaction_id |-> t, amount |-> txn[s].amount,
                status |-> PENDING, reason |-> "", processed_at |-> Null,
                sent_as |-> txn[s].txid]
    IN  /\ txn[s].pc = "insert"
        /\ t \notin LockedTxnIds(s)
        /\ IF TxnIdConflict(refunds, t)
           THEN Finish(s, 500)
           ELSE txn' = [txn EXCEPT ![s].pc = "commit", ![s].wr = {row}]
        /\ UNCHANGED <<now, users, plans, installments, refunds, idem, last>>

\* the 201 response leaves the atomic block: commit
RefundCommit(s) ==
    LET rs == Append(refunds, CHOOSE r \in txn[s].wr : TRUE)
    IN  /\ txn[s].pc = "commit"
        /\ refunds' = rs
        /\ txn' = [txn EXCEPT ![s].pc = "done", ![s].code = 201, ![s].wr = {},
                              ![s].body = RefundData(rs, Len(rs))]
        /\ UNCHANGED <<now, users, plans, installments, idem, last>>

\* RefundWebhookView.post up to User.objects.first(): the validation, and
\* process_refund_webhook.delay, which succeeds (queued) or raises
WebhookStart(rid, st, ref, queued) ==
    LET started == [txn["wh"] EXCEPT !.txid = rid, !.st = st, !.ref = ref]
    IN  /\ txn["wh"].pc = "idle"
        /\ IF rid = "" \/ st \notin ValidStatuses
           THEN txn' = [txn EXCEPT !["wh"] = [started EXCEPT !.pc = "done", !.code = 400]]
           ELSE IF queued
           THEN txn' = [txn EXCEPT !["wh"] = [started EXCEPT !.pc = "done", !.code = 200]]
           ELSE txn' = [txn EXCEPT !["wh"] = [started EXCEPT !.pc = "get", !.user = FirstUser]]
        /\ UNCHANGED <<now, users, plans, installments, refunds, idem, last>>

\* get_or_create: "self.get(transaction_id=refund_id)"
WebhookGet ==
    LET found == RefundsWith(refunds, txn["wh"].txid)
    IN  /\ txn["wh"].pc = "get"
        /\ IF found = {}
           THEN txn' = [txn EXCEPT !["wh"].pc = "create"]
           ELSE txn' = [txn EXCEPT !["wh"].pc = "save",
                                   !["wh"].rows = {[id |-> i, row |-> refunds[i]] : i \in found}]
        /\ UNCHANGED <<now, users, plans, installments, refunds, idem, last>>

\* get_or_create: the create, and the second get when the create raises
\* IntegrityError
WebhookCreate ==
    LET rid == txn["wh"].txid
        created == GetOrCreate(<<>>, rid, txn["wh"].ref)[1]
    IN  /\ txn["wh"].pc = "create"
        /\ rid \notin LockedTxnIds("wh")
        /\ refunds' = IF TxnIdConflict(refunds, rid) THEN refunds ELSE Append(refunds, created)
        /\ txn' = [txn EXCEPT !["wh"].pc = "save",
                              !["wh"].rows = IF TxnIdConflict(refunds, rid)
                                             THEN {[id |-> i, row |-> refunds[i]] :
                                                      i \in RefundsWith(refunds, rid)}
                                             ELSE {[id |-> Len(refunds) + 1, row |-> created]}]
        /\ UNCHANGED <<now, users, plans, installments, idem, last>>

\* "refund.status = ...; refund.save()": the row is written from the instance
WebhookSave ==
    /\ txn["wh"].pc = "save"
    /\ refunds' = [i \in 1..Len(refunds) |->
                      IF \E r \in txn["wh"].rows : r.id = i
                      THEN [(CHOOSE r \in txn["wh"].rows : r.id = i).row
                               EXCEPT !.status = SyncStatus(txn["wh"].st)]
                      ELSE refunds[i]]
    /\ txn' = [txn EXCEPT !["wh"].pc = "done", !["wh"].code = 200]
    /\ UNCHANGED <<now, users, plans, installments, idem, last>>

\* the requests of the interleaved create_refund runs
ConcRefundRequests ==
    {[user |-> "u2", txn |-> t, amount |-> 100] : t \in {"t1", " t1", "t2"}}

NextRefundConc ==
    \/ \E s \in RefundSessions, r \in ConcRefundRequests : RefundExisting(s, r.user, r.txn, r.amount)
    \/ \E s \in RefundSessions : RefundSerializer(s)
    \/ \E s \in RefundSessions : RefundInsert(s)
    \/ \E s \in RefundSessions : RefundCommit(s)
    \/ \E rid \in WebhookIds, st \in WebhookStatuses, ref \in Refs, queued \in BOOLEAN :
          WebhookStart(rid, st, ref, queued)
    \/ WebhookGet
    \/ WebhookCreate
    \/ WebhookSave

SpecRefundConc == Init /\ [][NextRefundConc]_vars

----------------------------------------------------------------------------

\* Sweep runs that fail.  The store may fail at any statement of the task; the beat
\* starts the next run after the one before has ended.

\* a task whose saves are committed one by one
SweepAutocommit == FALSE

\* "with transaction.atomic():" around the statements of check_overdue_payments
SweepAtomic == TRUE

\* a statement of the sweep raises: the exception leaves the atomic block, which
\* rolls back, and "except Exception ... raise" passes it on to the worker
SweepFault ==
    /\ txn["sw"].pc \in {"select", "save"}
    /\ IF SweepAtomic
       THEN UNCHANGED <<installments, users>>
       ELSE /\ installments' = InstCommitted("sw")
            /\ users' = UsersCommitted("sw")
    /\ Finish("sw", 500)
    /\ last' = [op |-> "sweep", code |-> 500, body |-> [error |-> "raised"]]
    /\ UNCHANGED <<now, plans, refunds, idem>>

\* the beat schedule starts the next run of the task
SweepNextRun ==
    /\ txn["sw"].pc = "done"
    /\ txn' = [txn EXCEPT !["sw"] = Idle]
    /\ UNCHANGED <<now, users, plans, installments, refunds, idem, last>>

NextSweepFault ==
    \/ AdvanceClock
    \/ \E u \in Users, n \in 1..2 : CreatePlan(u, 1000, n, NoKey)
    \/ SweepExists
    \/ SweepSelect
    \/ SweepSaveRow
    \/ SweepSaveUser
    \/ SweepCommit
    \/ SweepFault
    \/ SweepNextRun

SpecSweepFault == Init /\ [][NextSweepFault]_vars

----------------------------------------------------------------------------

\* Cleanup of expired idempotency keys (utils.clean_expired_idempotency_keys and the
\* scheduled task of the same name in tasks.py)

\* the keys the requests carry here
CleanupKeys == Keys \cup {"k2"}

\* the frames the interpreter allows before it raises RecursionError
RecursionLimit == 3

\* a filter that also selects the entries expiring now
ExpiredEntriesOrDue(table, t) == {e \in table : e.expires_at <= t}

\* IdempotencyKey.objects.filter(expires_at__lt=timezone.now())
ExpiredEntries(table, t) == {e \in table : e.expires_at < t}

\* utils.clean_expired_idempotency_keys: the table afterwards and the count returned
CleanExpired(table, t) ==
    [raised |-> FALSE, table |-> table \ ExpiredEntries(table, t),
     deleted_count |-> Cardinality(ExpiredEntries(table, t))]

\* a call of utils.clean_expired_idempotency_keys by a caller that imports it
CleanExpiredIdempotencyKeys ==
    LET res == CleanExpired(idem, now)
    IN  /\ txn = NoTxn
        /\ idem' = res.table
        /\ last' = [op |-> "clean_expired", code |-> 0,
                    body |-> [deleted_count |-> res.deleted_count]]
        /\ UNCHANGED <<now, users, plans, installments, refunds, txn>>

\* one frame of the task.  tasks.py imports the function of utils.py and then
\* defines the task under the same name, so the name the task's body calls is
\* bound to the task: each frame calls the task again, until the interpreter
\* raises RecursionError, which every frame logs and raises again.
RECURSIVE CleanExpiredTaskFrame(_, _, _)
CleanExpiredTaskFrame(table, t, depth) ==
    IF depth >= RecursionLimit
    THEN [raised |-> TRUE, table |-> table, deleted_count |-> 0]
    ELSE CleanExpiredTaskFrame(table, t, depth + 1)

\* tasks.clean_expired_idempotency_keys, started by the hourly beat
CleanExpiredTask ==
    LET res == CleanExpiredTaskFrame(idem, now, 1)
    IN  /\ txn = NoTxn
        /\ idem' = res.table
        /\ last' = IF res.raised
                   THEN [op |-> "clean_task", code |-> 500, body |-> [error |-> "RecursionError"]]
                   ELSE [op |-> "clean_task", code |-> 0,
                         body |-> [deleted_count |-> res.deleted_count]]
        /\ UNCHANGED <<now, users, plans, installments, refunds, txn>>

NextCleanup ==
    \/ AdvanceIdemClock
    \/ \E u \in Users, k \in CleanupKeys : CreatePlan(u, 1000, 1, k)
    \/ CleanExpiredIdempotencyKeys
    \/ CleanExpiredTask

SpecCleanup == Init /\ [][NextCleanup]_vars

----------------------------------------------------------------------------
\* The sequential machine: properties

\* C1: after any sequence of create_plan, sweep_overdue and repay run one after the
\* other, every user is DEBT_USER iff one of their installments is OVERDUE.
C1_DebtStatusConsistent ==
    \A u \in Users : users[u] = DEBT_USER <=> OverdueOf(installments, u) # {}

\* a user who repaid one of two overdue installments, and one who repaid all
C1_Witness ==
    /\ \E u \in Users : users[u] = DEBT_USER /\ \E i \in InstallmentIds :
            OwnerOf(installments, i) = u /\ installments[i].status = PAID
    /\ \E u \in Users : users[u] = NORMAL /\ \E i \in InstallmentIds :
            OwnerOf(installments, i) = u /\ installments[i].status = PAID

\* every id of the list names an OVERDUE installment of user u, and no id twice
AllResolve(u, ids) ==
    /\ \A j \in 1..Len(ids) :
            /\ ids[j] \in InstallmentIds
            /\ OwnerOf(installments, ids[j]) = u
            /\ installments[ids[j]].status = OVERDUE
    /\ \A j, l \in 1..Len(ids) : j # l => ids[j] # ids[l]

\* C3: a repay naming an id that does not resolve to an OVERDUE installment of the
\* user (unknown, UPCOMING, PAID, another user's, or named twice) answers 400 and
\* changes no installment and no user.
C3_RepayAllOrNothing ==
    [][ \/ last'.op # "repay"
        \/ last'.code = 400 /\ installments' = installments /\ users' = users
        \/ \A u \in Users, ids \in IdLists, k \in HeaderKeys :
              (~Lookup(k).hit /\ ~AllResolve(u, ids)) => ~Repay(u, ids, k) ]_vars

\* a repay was refused with 400 while the user had repaid before and still owes
C3_Witness ==
    /\ last.op = "repay" /\ last.code = 400
    /\ \E i, j \in InstallmentIds :
          /\ installments[i].status = OVERDUE /\ installments[j].status = PAID
          /\ OwnerOf(installments, i) # OwnerOf(installments, j)

\* C6: a sweep that directly follows a sweep changes no row and counts zero updates.
C6_SweepIdempotent ==
    [][ (last.op = "sweep" /\ last'.op = "sweep")
            => /\ last'.body.updated = 0
               /\ UNCHANGED <<now, users, plans, installments, refunds, idem>> ]_vars

\* a second sweep in a row, after a first one that marked installments overdue
C6_Witness ==
    /\ last.op = "sweep" /\ last.body.after_sweep /\ last.body.updated = 0
    /\ \E i \in InstallmentIds : installments[i].status = OVERDUE

\* C7: an installment's status only moves UPCOMING -> OVERDUE, by the sweep, and
\* OVERDUE -> PAID, by repay; rows are never removed.
C7_StatusMovesForward ==
    [][ /\ Len(installments') >= Len(installments)
        /\ \A i \in 1..Len(installments) :
              installments'[i].status # installments[i].status =>
                \/ /\ installments[i].status = UPCOMING
                   /\ installments'[i].status = OVERDUE
                   /\ last'.op = "sweep"
                \/ /\ installments[i].status = OVERDUE
                   /\ installments'[i].status = PAID
                   /\ last'.op = "repay" ]_vars

\* an installment went all the way to PAID, and a sweep ran after that
C7_Witness ==
    /\ last.op = "sweep"
    /\ \E i \in InstallmentIds : installments[i].status = PAID

\* the installments a sweep run at the current date has to transition
DueBefore(insts, today) ==
    {i \in 1..Len(insts) : insts[i].status = UPCOMING /\ insts[i].due_date < today}

\* C8: a sweep turns exactly the UPCOMING installments due before today OVERDUE,
\* makes exactly their owners DEBT_USER, and changes nothing else.
C8_SweepFrame ==
    [][ last'.op = "sweep" =>
          LET due == DueBefore(installments, Today)
          IN  /\ Len(installments') = Len(installments)
              /\ \A i \in 1..Len(installments) :
                    installments'[i] =
                        IF i \in due THEN [installments[i] EXCEPT !.status = OVERDUE]
                        ELSE installments[i]
              /\ \A u \in Users :
                    users'[u] =
                        IF (\E i \in due : OwnerOf(installments, i) = u) /\ users[u] # DEBT_USER
                        THEN DEBT_USER ELSE users[u]
              /\ last'.body.updated = Cardinality(due)
              /\ UNCHANGED <<now, plans, refunds, idem>> ]_vars

\* a sweep marked installments overdue and left one that is due today UPCOMING
C8_Witness ==
    /\ last.op = "sweep" /\ last.body.updated > 0
    /\ \E i \in InstallmentIds :
          installments[i].status = UPCOMING /\ installments[i].due_date = Today

\* C9: a successful repay moves every named installment OVERDUE -> PAID with paid_at
\* set, reports the number of installments it moved, and leaves the user NORMAL iff
\* no OVERDUE installment of theirs remains, reporting that status.
C9_RepaySuccess ==
    [][ (last'.op = "repay" /\ last'.code = 200) =>
          \A u \in Users, ids \in IdLists, k \in HeaderKeys :
            (~Lookup(k).hit /\ Repay(u, ids, k)) =>
              /\ \A j \in 1..Len(ids) :
                    /\ installments[ids[j]].status = OVERDUE
                    /\ installments'[ids[j]].status = PAID
                    /\ installments'[ids[j]].paid_at = Some(now)
              /\ last'.body.paid_installments =
                    Cardinality({i \in InstallmentIds : installments'[i] # installments[i]})
              /\ users'[u] = NORMAL <=> OverdueOf(installments', u) = {}
              /\ users'[u] = DEBT_USER <=> OverdueOf(installments', u) # {}
              /\ last'.body.user_status = users'[u] ]_vars

\* a partial repayment: the answer reports DEBT_USER
C9_Witness ==
    /\ last.op = "repay" /\ last.code = 200 /\ last.body.user_status = DEBT_USER
    /\ \E i \in InstallmentIds : installments[i].status = PAID

----------------------------------------------------------------------------
\* The interleaved runs: properties

\* C2: when one repay of user U and the sweep have both committed, the repay having
\* paid an OVERDUE installment of U and the sweep having found a past-due UPCOMING
\* installment of U, U is DEBT_USER iff U owns an OVERDUE installment.
C2_RepaySweepConsistent ==
    (/\ txn["r1"].pc = "done" /\ txn["r1"].code = 200
     /\ txn["sw"].pc = "done"
     /\ \E r \in txn["sw"].rows : OwnerOf(installments, r.id) = txn["r1"].user
     /\ txn["r2"].pc = "idle")
    => (users[txn["r1"].user] = DEBT_USER <=> OverdueOf(installments, txn["r1"].user) # {})

\* C10: paid_at is non-null exactly on the PAID installments, and a paid_at that is
\* set keeps its value in every step, whether the repay requests that name the
\* installment run one after the other or interleaved.
C10_PaidAtSetOnce ==
    /\ [](\A i \in InstallmentIds :
            installments[i].paid_at # Null <=> installments[i].status = PAID)
    /\ [][\A i \in InstallmentIds :
            installments[i].paid_at # Null => installments'[i].paid_at = installments[i].paid_at]_vars

\* two interleaved repay requests for the same installment have both answered 200,
\* the second after the clock moved on, and the installment bears the first's stamp
C10_Witness ==
    /\ txn["r1"].pc = "done" /\ txn["r1"].code = 200
    /\ txn["r2"].pc = "done" /\ txn["r2"].code = 200
    /\ txn["r1"].ids = <<1>> /\ txn["r2"].ids = <<1>>
    /\ installments[1].status = PAID
    /\ installments[1].paid_at # Some(now)

\* the installments of plan pid
PlanRows(insts, pid) == {i \in 1..Len(insts) : insts[i].plan = pid}

\* C13: a create_plan(user, total, n) answering 201 adds one ACTIVE plan of the user
\* and exactly n installments of it, all UPCOMING with paid_at null and due on the
\* creation date + 30 * (i + 1) days for i = 0..n-1, and changes no other row; a
\* create_plan that fails adds nothing; in every state every plan has between 1
\* and 12 installments.
C13_PlanWithFullSchedule ==
    /\ [](\A pid \in 1..Len(plans) :
            Cardinality(PlanRows(installments, pid)) \in MinInstallmentCount..MaxInstallmentCount)
    /\ [][ \A r \in CreateRequests :
              CreatePlan(r.user, r.total, r.count, NoKey) \/ CreatePlanFault(r.user, r.total, r.count) =>
                IF last'.code = 201
                THEN LET pid == Len(plans) + 1
                         rows == PlanRows(installments', pid)
                     IN  /\ plans' = Append(plans, [user |-> r.user, total_amount |-> r.total,
                                                     status |-> ACTIVE])
                         /\ SubSeq(installments', 1, Len(installments)) = installments
                         /\ rows = (Len(installments) + 1)..Len(installments')
                         /\ Cardinality(rows) = r.count
                         /\ \A i \in rows : /\ installments'[i].status = UPCOMING
                                            /\ installments'[i].paid_at = Null
                         /\ {installments'[i].due_date : i \in rows}
                               = {Today + 30 * (i + 1) : i \in 0..(r.count - 1)}
                ELSE plans' = plans /\ installments' = installments ]_vars

\* a plan of two installments was created the day after the first installment of an
\* earlier plan was due
C13_Witness ==
    /\ last.op = "create_plan" /\ last.code = 201
    /\ Len(last.body.installments) = 2
    /\ Today = InstallmentIntervalDays + 1
    /\ Len(plans) = 2

\* C14: the stored amount_due values of the installments of every plan add up to
\* the plan's total_amount.
C14_AmountsSumToTotal ==
    \A pid \in 1..Len(plans) :
        SumAmounts(installments, PlanRows(installments, pid)) = plans[pid].total_amount

\* C15: check_debt of a user answers has_overdue true iff the user owns an OVERDUE
\* installment and total_debt equal to the sum of amount_due over exactly the user's
\* OVERDUE installments, and changes no state.
C15_CheckDebtExact ==
    [][ (last'.op = "check_debt" /\ last'.code = 200) =>
          LET u == last'.body.user_id
              owed == {i \in InstallmentIds :
                          plans[installments[i].plan].user = u /\ installments[i].status = OVERDUE}
          IN  /\ last'.body.has_overdue <=> owed # {}
              /\ last'.body.total_debt = SumAmounts(installments, owed)
              /\ last'.body.overdue_installments = owed
              /\ UNCHANGED <<now, users, plans, installments, refunds, idem, txn>> ]_vars

\* check_debt reported the debt of a user who also owns an UPCOMING installment,
\* while another user owns an OVERDUE installment too
C15_Witness ==
    /\ last.op = "check_debt" /\ last.code = 200 /\ last.body.has_overdue
    /\ \E i \in InstallmentIds : /\ OwnerOf(installments, i) = last.body.user_id
                                  /\ installments[i].status = UPCOMING
    /\ \E i \in InstallmentIds : /\ OwnerOf(installments, i) # last.body.user_id
                                  /\ installments[i].status = OVERDUE

\* C12: on a cache miss a well-formed create_plan for an unknown user_id answers
\* not-found (404) and one for a DEBT_USER answers forbidden (403), neither of them
\* the validation failure (400) that malformed input gets.
C12_DistinctFailures ==
    [][ \A r \in CreateRequests :
          (/\ r.total >= 1 /\ r.count \in MinInstallmentCount..MaxInstallmentCount
           /\ CreatePlan(r.user, r.total, r.count, NoKey)) =>
             /\ r.user \notin Users => last'.code = 404
             /\ (r.user \in Users /\ users[r.user] = DEBT_USER) => last'.code = 403 ]_vars

----------------------------------------------------------------------------
\* The handlers called with a key: properties

C11_IneligibleAlwaysRejected ==
    [][ \A r \in KeyedCreateRequests, k \in HeaderKeys :
          (/\ r.user \notin Users \/ users[r.user] = DEBT_USER
           /\ CreatePlan(r.user, r.total, r.count, k)) =>
             /\ last'.code \notin {200, 201}
             /\ plans' = plans /\ installments' = installments
             /\ idem' = idem /\ users' = users ]_vars

\* C11, amended: a create_plan for a DEBT_USER or for an unknown user_id changes no
\* plan, installment, idempotency entry or user, and it is rejected unless its key
\* has an unexpired entry, whose payload it then answers.
C11_IneligibleNoEffect ==
    [][ \A r \in KeyedCreateRequests, k \in HeaderKeys :
          (/\ r.user \notin Users \/ users[r.user] = DEBT_USER
           /\ CreatePlan(r.user, r.total, r.count, k)) =>
             /\ IF Lookup(k).hit
                THEN last'.code = 200 /\ last'.body = Lookup(k).data
                ELSE last'.code \notin {200, 201}
             /\ plans' = plans /\ installments' = installments
             /\ idem' = idem /\ users' = users ]_vars

\* a DEBT_USER's create_plan, sent with a key whose entry has expired, was rejected
C11_Witness ==
    /\ last.op = "create_plan" /\ last.code \notin {200, 201}
    /\ last.user \in Users /\ users[last.user] = DEBT_USER
    /\ last.key \in Keys /\ HasEntry(last.key) /\ IsExpired(Entry(last.key), now)

----------------------------------------------------------------------------
\* Refunds: properties

\* C5: a create_refund sending a transaction_id that an earlier create_refund sent
\* when it created a refund answers 200 with that refund's id and changes no refund,
\* whatever else it carries and whatever status that refund has reached.
C5_CreateRefundReplay ==
    [][ last'.op = "create_refund" =>
          \A i \in 1..Len(refunds) :
            refunds[i].sent_as = last'.sent =>
              /\ last'.code = 200
              /\ last'.body.id = i
              /\ refunds' = refunds ]_vars

\* the same for the requests whose transaction_id has no surrounding blanks
C5_ReplayOfStrippedId ==
    [][ (last'.op = "create_refund" /\ Strip(last'.sent) = last'.sent) =>
          \A i \in 1..Len(refunds) :
            refunds[i].sent_as = last'.sent =>
              /\ last'.code = 200
              /\ last'.body.id = i
              /\ refunds' = refunds ]_vars

\* C16: approve_or_reject on a PENDING refund answers 200, sets the status APPROVED
\* (approve) or REJECTED (reject) and processed_at to now; on a refund of another
\* status it answers 400 and changes nothing; so does the approve_or_reject that
\* follows a successful one on the same refund.
C16_ApproveOnlyPending ==
    /\ [][ \A pk \in 1..Len(refunds), a \in {"approve", "reject"}, r \in Reasons :
              ApproveRefund(pk, a, r) =>
                IF refunds[pk].status = PENDING
                THEN /\ last'.code = 200
                     /\ refunds'[pk].status = (IF a = "approve" THEN APPROVED ELSE REJECTED)
                     /\ refunds'[pk].processed_at = Some(now)
                     /\ \A i \in 1..Len(refunds) : i # pk => refunds'[i] = refunds[i]
                ELSE last'.code = 400 /\ refunds' = refunds ]_vars
    /\ [][ (last.op = "approve_refund" /\ last.code = 200) =>
              \A a \in {"approve", "reject"}, r \in Reasons :
                ApproveRefund(last.body.id, a, r) => last'.code = 400 /\ refunds' = refunds ]_vars

\* an approve_or_reject was refused while every refund is APPROVED
C16_Witness ==
    /\ last.op = "approve_refund" /\ last.code = 400
    /\ Len(refunds) >= 1
    /\ \A i \in 1..Len(refunds) : refunds[i].status = APPROVED

\* C17: cancel on a PENDING refund answers 200 and sets status REJECTED, reason
\* "Cancelled by user" and processed_at to now; on a refund of another status it
\* answers 400 and changes nothing.
C17_CancelOnlyPending ==
    [][ \A pk \in 1..Len(refunds) :
          CancelRefund(pk) =>
            IF refunds[pk].status = PENDING
            THEN /\ last'.code = 200
                 /\ refunds'[pk].status = REJECTED
                 /\ refunds'[pk].reason = "Cancelled by user"
                 /\ refunds'[pk].processed_at = Some(now)
                 /\ \A i \in 1..Len(refunds) : i # pk => refunds'[i] = refunds[i]
            ELSE last'.code = 400 /\ refunds' = refunds ]_vars

\* a cancel was refused on an APPROVED refund after another refund was cancelled
C17_Witness ==
    /\ last.op = "cancel_refund" /\ last.code = 400
    /\ Len(refunds) = 2
    /\ \E i \in 1..2 : refunds[i].status = REJECTED /\ refunds[i].reason = "Cancelled by user"
    /\ \A i \in 1..2 : refunds[i].status # PENDING

----------------------------------------------------------------------------
\* Refund webhooks: properties

\* C18: a refund that is APPROVED or REJECTED keeps its status in every step.
C18_TerminalStatuses ==
    [][ \A i \in 1..Len(refunds) :
          refunds[i].status \in {APPROVED, REJECTED} => refunds'[i].status = refunds[i].status ]_vars

\* C19: every APPROVED or REJECTED refund has a processed_at, and a refund that
\* stays PENDING keeps its null processed_at.
C19_ProcessedAtStamped ==
    /\ [](\A i \in 1..Len(refunds) :
            refunds[i].status \in {APPROVED, REJECTED} => refunds[i].processed_at # Null)
    /\ [][ \A i \in 1..Len(refunds) :
              (/\ refunds[i].status = PENDING /\ refunds[i].processed_at = Null
               /\ refunds'[i].status = PENDING) => refunds'[i].processed_at = Null ]_vars

\* C20: a webhook applied to an existing PENDING refund, by the task or by the
\* synchronous fallback, leaves it APPROVED for approved, REJECTED for rejected and
\* for failed, and changes no refund for processing.
C20_WebhookMapping ==
    [][ \A rid \in WebhookIds, st \in ValidStatuses, ref \in Refs :
          LET target == IF st = "approved" THEN APPROVED
                        ELSE IF st = "processing" THEN PENDING ELSE REJECTED
              byId == PkOf(rid)
              byTxn == RefundsWith(refunds, rid)
          IN  /\ (/\ byId # 0 /\ refunds[byId].status = PENDING
                  /\ ProcessRefundWebhook(rid, st, ref)) =>
                    /\ refunds'[byId].status = target
                    /\ st = "processing" => refunds' = refunds
              /\ \A pk \in byTxn :
                    (refunds[pk].status = PENDING /\ WebhookPost(rid, st, ref, FALSE)) =>
                      /\ refunds'[pk].status = target
                      /\ st = "processing" => refunds' = refunds ]_vars

\* C21: a webhook whose refund_id matches no refund, by id or by transaction_id,
\* is either answered with an error or leaves a placeholder refund whose
\* transaction_id is the refund_id; it is never answered 200 with no refund created.
C21_UnknownRefundNotAcknowledged ==
    [][ \A rid \in WebhookIds, st \in WebhookStatuses, ref \in Refs, queued \in BOOLEAN :
          (/\ PkOf(rid) = 0 /\ RefundsWith(refunds, rid) = {}
           /\ WebhookPost(rid, st, ref, queued)) =>
             \/ last'.code # 200
             \/ /\ Len(refunds') = Len(refunds) + 1
                /\ refunds'[Len(refunds')].transaction_id = rid ]_vars

----------------------------------------------------------------------------
\* The idempotency cache: properties

\* C22: check_idempotency answers the stored response iff the key has an entry and
\* now < expires_at; for an entry with expires_at <= now it answers a miss and
\* deletes the entry; for a valid or an absent key it leaves the table as it is.
C22_LookupValidity ==
    \A k \in Keys :
        LET chk == CheckIdempotency(k)
            valid == HasEntry(k) /\ now < Entry(k).expires_at
        IN  /\ chk.hit <=> valid
            /\ chk.hit => chk.data = Entry(k).response_data
            /\ (HasEntry(k) /\ ~valid) => chk.table = idem \ {Entry(k)}
            /\ (valid \/ ~HasEntry(k)) => chk.table = idem

\* C23: a call of utils.clean_expired_idempotency_keys deletes exactly the entries
\* with expires_at < now, returns how many it deleted, and leaves the entries with
\* expires_at >= now and every other table as they are.
C23_PurgeExact ==
    [][ last'.op = "clean_expired" =>
          /\ idem' = {e \in idem : e.expires_at >= now}
          /\ \A e \in idem \ idem' : e.expires_at < now
          /\ last'.body.deleted_count = Cardinality(idem) - Cardinality(idem')
          /\ UNCHANGED <<now, users, plans, installments, refunds>> ]_vars

\* a cleanup has deleted the one entry that had expired and kept the one that had not
C23_Witness ==
    /\ last.op = "clean_expired" /\ last.body.deleted_count = 1
    /\ Cardinality(idem) = 1
    /\ \A e \in idem : e.expires_at > now
    /\ Len(plans) = 2

\* C24: every run of the scheduled cleanup task returns the count of the expired
\* entries it removed and leaves no entry with expires_at < now.
C24_CleanupTaskCompletes ==
    [][ last'.op = "clean_task" =>
          /\ last'.code = 0
          /\ last'.body = [deleted_count |-> Cardinality(ExpiredEntries(idem, now))]
          /\ ExpiredEntries(idem', now) = {} ]_vars

----------------------------------------------------------------------------
\* Interleaved create_plan runs: properties

\* the two create_plan runs carried the same key, both looked it up before either
\* had stored its response, and both have answered 201
BothCreated ==
    /\ \A s \in CreateSessions : txn[s].pc = "done" /\ txn[s].code = 201 /\ txn[s].early
    /\ txn["c1"].key = txn["c2"].key
    /\ txn["c1"].key # NoKey

\* the plans the create_plan runs have committed
CommittedByRuns == {p \in 1..Len(plans) : p > 1 /\ plans[p].status # NoRow}

C28_NoPlanForDebtUser ==
    [][ \A p \in 1..Len(plans') :
          (/\ plans'[p].status # NoRow
           /\ p > Len(plans) \/ plans[p].status = NoRow) =>
             users[plans'[p].user] # DEBT_USER ]_vars

----------------------------------------------------------------------------
\* Interleaved refund runs: properties

\* C25: whatever the interleaving of create_refund requests and synchronous
\* webhook calls, no two refunds have the same transaction_id.
C25_UniqueTransactionId ==
    \A i, j \in 1..Len(refunds) :
        refunds[i].transaction_id = refunds[j].transaction_id => i = j

\* two create_refund requests for the same transaction_id had both passed their
\* checks before either inserted; one has created the refund, the insert of the
\* other was refused, and the webhook has found the refund and saved it
C25_Witness ==
    /\ \A s \in RefundSessions : txn[s].pc = "done" /\ txn[s].early
    /\ {txn[s].code : s \in RefundSessions} = {201, 500}
    /\ txn["wh"].pc = "done" /\ txn["wh"].code = 200 /\ txn["wh"].rows # {}
    /\ Len(refunds) = 1

\* C26: of two create_refund requests for the same transaction_id that both passed
\* the existing-refund check and the validation before either inserted, one
\* answers 201 with the new refund and the other 200 with that same refund.
C26_ConcurrentDuplicateResolved ==
    (/\ \A s \in RefundSessions : txn[s].pc = "done" /\ txn[s].early
     /\ Strip(txn["f1"].txid) = Strip(txn["f2"].txid)) =>
        \E s \in RefundSessions :
            /\ txn[s].code = 201
            /\ \A o \in RefundSessions \ {s} : txn[o].code = 200 /\ txn[o].body = txn[s].body

----------------------------------------------------------------------------
\* Interleaved repay runs and sweep failures: properties

\* C29: two repay requests that name the same installment never both answer 200:
\* at most one of them reports the installment as paid.
C29_AtMostOneRepaySucceeds ==
    (\A s \in RepaySessions : txn[s].pc = "done" /\ txn[s].code = 200) =>
        SeqToSet(txn["r1"].ids) \cap SeqToSet(txn["r2"].ids) = {}

\* C30: a sweep run that fails at one of its statements leaves every installment
\* and every user as they were when it began and ends with the exception raised;
\* every run that commits, the one after a failure included, leaves OVERDUE every
\* installment that was UPCOMING and past due when it ran, and its owner DEBT_USER.
C30_FailedSweepRollsBack ==
    /\ [][ (txn["sw"].pc # "done" /\ txn'["sw"].pc = "done" /\ txn'["sw"].code # 0) =>
              /\ installments' = installments
              /\ users' = users
              /\ txn'["sw"].wi = {} /\ txn'["sw"].wu = {}
              /\ last'.op = "sweep" /\ last'.code = 500 ]_vars
    /\ [][ (txn["sw"].pc = "save" /\ txn'["sw"].pc = "done" /\ txn'["sw"].code = 0) =>
              \A i \in 1..Len(installments) :
                  (installments[i].status = UPCOMING /\ installments[i].due_date < txn["sw"].today) =>
                      /\ installments'[i].status = OVERDUE
                      /\ users'[OwnerOf(installments', i)] = DEBT_USER ]_vars
    /\ [](txn["sw"].pc \in {"idle", "done"} => txn["sw"].wi = {} /\ txn["sw"].wu = {})

\* a run failed after it had saved a row; the next run has committed, and both
\* installments that were past due are OVERDUE
C30_Witness ==
    /\ last.op = "sweep" /\ last.code = 500
    /\ txn["sw"].pc = "done" /\ txn["sw"].code = 0
    /\ Len(installments) = 2
    /\ \A i \in 1..2 : installments[i].status = OVERDUE
    /\ users["u1"] = DEBT_USER

----------------------------------------------------------------------------
\* Failures of the idempotency store: properties

\* C31: a create_plan or repay whose store of the response fails answers a failure
\* and leaves no plan, installment or user changed.
C31_StoreFailureFatal ==
    [][ /\ \A r \in KeyedCreateRequests, k \in Keys :
              CreatePlanStoreFault(r.user, r.total, r.count, k) =>
                /\ last'.code \notin {200, 201}
                /\ plans' = plans /\ installments' = installments /\ users' = users
        /\ \A r \in KeyedRepayRequests, k \in Keys :
              RepayStoreFault(r.user, r.ids, k) =>
                /\ last'.code \notin {200, 201}
                /\ plans' = plans /\ installments' = installments /\ users' = users ]_vars

----------------------------------------------------------------------------
\* The scheduled sweep: liveness

\* C32: with the sweep run again and again, every installment that is UPCOMING with
\* a due_date before today is OVERDUE at some later time, and in the step that
\* makes an installment OVERDUE its owner is DEBT_USER.
C32_PastDueBecomesOverdue ==
    /\ \A i \in 1..(2 * MaxPlans) :
          (i \in InstallmentIds /\ IsPastDue(installments[i], Today))
              ~> (i \in InstallmentIds /\ installments[i].status = OVERDUE)
    /\ [][ \A i \in InstallmentIds :
              (installments[i].status = UPCOMING /\ installments'[i].status = OVERDUE) =>
                  users'[OwnerOf(installments', i)] = DEBT_USER ]_vars

\* a sweep has made both installments of u2's plan OVERDUE, two months after
\* the plan was created, and u2 a DEBT_USER; u1 has no plan
C32_Witness ==
    /\ last.op = "sweep" /\ last.body.updated = 2
    /\ Len(plans) = 1 /\ plans[1].user = "u2"
    /\ \A i \in InstallmentIds : installments[i].status = OVERDUE
    /\ users = [u \in Users |-> IF u = "u2" THEN DEBT_USER ELSE NORMAL]

----------------------------------------------------------------------------
\* The handlers called with a key: hits, expiry and the kind of operation

\* C33: a create_plan or repay whose key has an entry that has not expired answers
\* the entry's payload and changes no plan, installment, user or entry, whatever
\* its body, whether or not its user exists and whatever the user's status.
C33_HitChangesNothing ==
    [][ \A k \in Keys :
          (HasEntry(k) /\ ~IsExpired(Entry(k), now)) =>
             /\ \A r \in KeyedCreateRequests :
                   CreatePlan(r.user, r.total, r.count, k) =>
                      /\ last'.code = 200 /\ last'.body = Entry(k).response_data
                      /\ UNCHANGED <<plans, installments, users, idem>>
             /\ \A r \in KeyedRepayRequests :
                   Repay(r.user, r.ids, k) =>
                      /\ last'.code = 200 /\ last'.body = Entry(k).response_data
                      /\ UNCHANGED <<plans, installments, users, idem>> ]_vars

\* a create_plan of u1, who is a DEBT_USER, was answered from the entry of the plan
\* of u2, and no plan was added
C33_Witness ==
    /\ last.op = "create_plan" /\ last.code = 200
    /\ last.user = "u1" /\ users["u1"] = DEBT_USER
    /\ HasEntry(last.key) /\ last.body = Entry(last.key).response_data
    /\ "user_id" \in DOMAIN last.body /\ last.body.user_id = "u2"
    /\ Cardinality({p \in 1..Len(plans) : plans[p].user = "u2"}) = 1


\* C34: a create_plan that is accepted and carries a key whose entry was stored 24
\* hours ago or earlier (expires_at <= now) is a miss: a second plan is created and
\* the key's only entry afterwards is a fresh one, with the new response and an
\* expiry 24 hours from now.
C34_ExpiredKeyReexecutes ==
    [][ \A k \in Keys, r \in KeyedCreateRequests :
          ( /\ HasEntry(k) /\ Entry(k).expires_at <= now
            /\ CreatePlanCode(r.user, r.total, r.count) = 201
            /\ CreatePlan(r.user, r.total, r.count, k) ) =>
               /\ last'.code = 201
               /\ Len(plans') = Len(plans) + 1
               /\ {e \in idem' : e.key = k} =
                     {[key |-> k, response_data |-> last'.body, expires_at |-> now + ExpiryHours]}
               /\ last'.body # Entry(k).response_data ]_vars

\* the same for an entry that is past its expiry (expires_at < now)
C34_PastExpiryReexecutes ==
    [][ \A k \in Keys, r \in KeyedCreateRequests :
          ( /\ HasEntry(k) /\ Entry(k).expires_at < now
            /\ CreatePlanCode(r.user, r.total, r.count) = 201
            /\ CreatePlan(r.user, r.total, r.count, k) ) =>
               /\ last'.code = 201
               /\ Len(plans') = Len(plans) + 1
               /\ {e \in idem' : e.key = k} =
                     {[key |-> k, response_data |-> last'.body, expires_at |-> now + ExpiryHours]}
               /\ last'.body # Entry(k).response_data ]_vars


\* C35: a response stored under a key by one kind of operation is never the answer
\* of the other kind: a repay answered 200 carries a repayment summary, and a
\* create_plan answered from the cache (200) carries a plan.
C35_NoCrossReplay ==
    /\ (last.op = "repay" /\ last.code = 200) =>
           DOMAIN last.body = {"message", "paid_installments", "user_status"}
    /\ (last.op = "create_plan" /\ last.code = 200) =>
           "installments" \in DOMAIN last.body

----------------------------------------------------------------------------
\* The two webhook paths

\* C36: for every refund store and every webhook the view accepts, the task and
\* the synchronous fallback leave the same refunds.
C36_WebhookPathsEquivalent ==
    \A rid \in WebhookIds \ {""}, st \in ValidStatuses, ref \in Refs :
        RefundsAfterTask(rid, st, ref) = RefundsAfterFallback(rid, st, ref)

\* the same for the webhooks whose refund exists and is PENDING, comparing the row
\* each path finds (the task by id, the fallback by transaction_id)
C36_SameRowWhenFound ==
    \A st \in ValidStatuses, ref \in Refs :
        (Len(refunds) >= 1 /\ refunds[1].status = PENDING /\ refunds[1].transaction_id = "t1") =>
            RefundsAfterTask("id1", st, ref)[1] = RefundsAfterFallback("t1", st, ref)[1]

----------------------------------------------------------------------------
\* Plans: status and deletion

\* C37: every plan is ACTIVE in every reachable state of create_plan, repay and the
\* sweep, and no step changes the status of a plan.
C37_PlansStayActive ==
    /\ [](\A p \in 1..Len(plans) : plans[p].status = ACTIVE)
    /\ [][ \A p \in 1..Len(plans) : plans'[p].status = plans[p].status ]_vars

\* a repay has paid the last open installment of a plan, which is still ACTIVE
C37_Witness ==
    /\ last.op = "repay" /\ last.code = 200
    /\ \E p \in 1..Len(plans) :
          /\ plans[p].status = ACTIVE
          /\ \E i \in InstallmentIds : installments[i].plan = p
          /\ \A i \in InstallmentIds : installments[i].plan = p => installments[i].status = PAID


\* C38: after the delete of a plan its owner is DEBT_USER iff they still own an
\* OVERDUE installment.
C38_DeleteKeepsStatusConsistent ==
    [][ \A pid \in 1..Len(plans) :
          (plans[pid].status # NoRow /\ DestroyPlan(pid)) =>
              (users'[plans[pid].user] = DEBT_USER
                  <=> \E i \in 1..Len(installments') :
                         /\ installments'[i].status = OVERDUE
                         /\ plans'[installments'[i].plan].user = plans[pid].user) ]_vars

----------------------------------------------------------------------------
\* Amounts and ownership

\* C39: every installment of every plan that create_plan has accepted has a stored
\* amount_due above zero.
C39_PositiveAmounts ==
    \A i \in InstallmentIds : installments[i].amount_due > 0


\* C40: a repay by user U, whatever it answers, leaves the status and paid_at of
\* every installment of another user and the status of every other user as they
\* were; a repay answered 200 changes no installment outside its list, no plan and
\* no refund.
C40_RepayTouchesOwnRowsOnly ==
    [][ \A r \in RepayRequests :
          Repay(r.user, r.ids, NoKey) =>
             /\ Len(installments') = Len(installments)
             /\ \A i \in InstallmentIds :
                   OwnerOf(installments, i) # r.user =>
                      /\ installments'[i].status = installments[i].status
                      /\ installments'[i].paid_at = installments[i].paid_at
             /\ \A v \in Users \ {r.user} : users'[v] = users[v]
             /\ last'.code = 200 =>
                   /\ \A i \in InstallmentIds \ SeqToSet(r.ids) : installments'[i] = installments[i]
                   /\ UNCHANGED <<plans, refunds>> ]_vars

\* u1 has repaid and is NORMAL again, while u2 still has an OVERDUE installment and
\* is a DEBT_USER
C40_Witness ==
    /\ last.op = "repay" /\ last.code = 200 /\ last.body.user_status = NORMAL
    /\ users = [u \in Users |-> IF u = "u2" THEN DEBT_USER ELSE NORMAL]
    /\ \E i \in InstallmentIds :
          /\ OwnerOf(installments, i) = "u1" /\ installments[i].paid_at = Some(now)
    /\ \E i \in InstallmentIds :
          /\ OwnerOf(installments, i) = "u2" /\ installments[i].status = OVERDUE

====
